---- MODULE Spec2Model ----
(***************************************************************************)
(* Model of the batch quantification pipeline of jython_ver1.py:           *)
(* QuantificationWorker (doInBackground, _run_ilastik_classification,     *)
(* done) running over the images selected in ProjectManagerGUI, with the  *)
(* results table, the probability cache and the temp directory on disk,   *)
(* and of the project store (Project.sync_project_db and the two project   *)
(* tables) as driven by the edits and saves of the main window.            *)
(* Opening a project directory (Project.__init__ with its path creation,   *)
(* table loading, directory scan and sort) and importing images into the   *)
(* open project are modelled on the same state, and so is the ROI editor   *)
(* (ROIEditor: creating, renaming and deleting ROIs, finalizing, saving).   *)
(*                                                                         *)
(* Strings that the code takes apart or joins (filenames, ROI names,       *)
(* paths) are sequences of one-character strings, so that os.path.splitext *)
(* and the "{}_{}" formatting are computed and not assumed injective.      *)
(***************************************************************************)
EXTENDS Integers, Sequences, FiniteSets, TLC

\* ------------------------------------------------------------------ bounds

\* Edits in one behaviour: cells of the ROI details table edited, editors
\* opened, and ROIs created, updated or deleted in an editor.
MaxEdits == 2

\* ROIs scheduled over all the batch runs of one behaviour: a batch is started
\* only while the ROIs of its images fit in what is left of this budget.
MaxScheduled == 3

\* Table rows, image files and ROI archives in a project directory that is
\* opened for the first time in a behaviour.
MaxItems == 3

\* ------------------------------------------------------------ string helpers

\* Position of the last "." of s that os.path.splitext splits at: 0 when there
\* is none or when only dots precede it (a leading-dot name has no extension).
LastDot(s) ==
    LET dots == {i \in 1..Len(s) : s[i] = "."}
        cand == {i \in dots : \E k \in 1..(i - 1) : s[k] # "."}
    IN  IF cand = {} THEN 0 ELSE CHOOSE i \in cand : \A k \in cand : k <= i

\* os.path.splitext(s)[0]
Stem(s) == IF LastDot(s) = 0 THEN s ELSE SubSeq(s, 1, LastDot(s) - 1)

\* "{}_{}".format(os.path.splitext(image_obj.filename)[0], roi_data['roi_name'])
BaseName(filename, roi_name) == Stem(filename) \o <<"_">> \o roi_name

\* temp_cropped_path, relative to project.paths['temp']
TempPath(filename, roi_name) ==
    BaseName(filename, roi_name) \o <<"_", "c", "r", "o", "p", "p", "e", "d", ".", "t", "i", "f">>

\* pixel_prob_path, relative to project.paths['probabilities']
PixelProbPath(base) ==
    base \o <<"_", "p", "r", "o", "b", "a", "b", "i", "l", "i", "t", "i", "e", "s", ".", "t", "i", "f">>

\* object_prob_path, relative to project.paths['probabilities']
ObjectProbPath(base) ==
    base \o <<"_", "o", "b", "j", "e", "c", "t", "s", ".", "t", "i", "f">>

\* ---------------------------------------------------------------- projects

F_1a_tif == <<"1", "_", "a", ".", "t", "i", "f">>
F_2b_tif == <<"2", "_", "b", ".", "t", "i", "f">>
F_a_jpg  == <<"a", ".", "j", "p", "g">>
F_a_tif  == <<"a", ".", "t", "i", "f">>
F_a_b_tif == <<"a", "_", "b", ".", "t", "i", "f">>
F_foo_tif == <<"f", "o", "o", ".", "t", "i", "f">>

R_r   == <<"r">>
R_s   == <<"s">>
R_c   == <<"c">>
R_b_c == <<"b", "_", "c">>

\* One row of image_obj.rois (a dict with roi_name, bregma, status).
RoiData(name, bregma) == [roi_name |-> name, bregma |-> bregma, status |-> "Defined"]

\* A ProjectImage: filename, status and its ROI list.
ProjectImage(filename, status, rois) ==
    [filename |-> filename, status |-> status, rois |-> rois]

\* Projects a session may have open: Project.images, in the order the
\* constructor sorts them (natural key, then filename).
Projects ==
    { << ProjectImage(F_1a_tif, "Finalized", <<RoiData(R_r, "-1.2"), RoiData(R_s, "N/A")>>),
         ProjectImage(F_2b_tif, "Finalized", <<RoiData(R_r, "0.5")>>) >>,
      << ProjectImage(F_a_jpg, "Finalized", <<RoiData(R_r, "N/A")>>),
         ProjectImage(F_a_tif, "New", <<RoiData(R_r, "N/A")>>) >>,
      << ProjectImage(F_a_tif, "Finalized", <<RoiData(R_b_c, "N/A")>>),
         ProjectImage(F_a_b_tif, "Finalized", <<RoiData(R_c, "N/A")>>) >>,
      << ProjectImage(F_1a_tif, "Finalized", <<RoiData(R_r, "-1.2")>>),
         ProjectImage(F_foo_tif, "Untracked", <<>>) >> }

\* selected_images = [self.project.images[row] for row in selected_rows]:
\* the non-empty sub-sequences of the image list, in table order.
RECURSIVE Pick(_, _)
Pick(images, rows) ==
    IF images = <<>> THEN <<>>
    ELSE LET rest == Pick(Tail(images), {r - 1 : r \in rows \ {1}})
         IN  IF 1 \in rows THEN <<Head(images)>> \o rest ELSE rest

Selections(images) ==
    {Pick(images, rows) : rows \in (SUBSET (1..Len(images))) \ {{}}}

\* sum(len(img.rois) for img in images_to_process)
RECURSIVE TotalRois(_)
TotalRois(images) ==
    IF images = <<>> THEN 0 ELSE Len(Head(images).rois) + TotalRois(Tail(images))


\* ------------------------------------------------------------------- state

VARIABLES
    project,            \* Project.images of the open project
    scheduled,          \* ROIs of the batch runs started so far
    images_to_process,  \* settings['images'] of the current worker
    pc,                 \* position of the worker thread in doInBackground
    future,             \* state of the worker's future (SwingWorker)
    retval,             \* value returned by doInBackground
    img_idx,            \* index of image_obj in images_to_process
    roi_idx,            \* index of roi_data in image_obj.rois
    total_rois,
    roi_counter,
    all_results,        \* self.all_results
    temp_cropped_path,  \* local of the ROI loop; None before the crop is saved
    temp_dir,           \* files in project.paths['temp']
    cache,              \* files in project.paths['probabilities'] and what they hold
    calls,              \* per (image, ROI): resolves and stage invocations so far
    result_imp,         \* image returned by _run_ilastik_classification
    overlay,            \* origins of the ROIs in imp_original.getOverlay()
    opened,             \* images opened by this run, in order
    exported,           \* exports of this run, in order
    started,            \* ROIs started by this run, in order
    log,                \* ROI error lines logged by this run
    posted,             \* progress values handed to invokeLater by this run
    results_db,         \* rows of Results_DB.csv
    done_ran,           \* done() has run for the current worker
    final_message,      \* dialog shown by done()
    warnings,           \* temp files whose os.remove raised (warning lines of the log)
    progress_bar,       \* progress_dialog.progress_bar value
    edt_ran,            \* UpdateProgressBarTasks of this run the control thread has run
    background,         \* a second worker, executed while the first was still running
    roi_db,             \* rows of Roi_DB.csv
    image_status_db,    \* rows of Image_Status_DB.csv
    unsaved_changes,    \* ProjectManagerGUI.unsaved_changes
    status_label,       \* text of the status bar of the main window
    last_sync,          \* what the last sync_project_db did and returned
    edits,              \* edits made so far (table cells, editors opened, ROI edits)
    has_project,        \* ProjectManagerGUI.project is a Project (not None)
    exists,             \* keys of Project.paths whose path exists
    images_dir,         \* names of the files in project.paths['images']
    roi_files,          \* ROI names held by each archive in project.paths['rois']
    path_errors,        \* keys whose creation error _verify_and_create_dirs logged
    editor,             \* the ROIEditor window: its image, RoiManager and list
    stage_args          \* what a stage started now is given: classifiers and crop

vars == << project, scheduled, images_to_process, pc, future, retval, img_idx, roi_idx,
           total_rois, roi_counter, all_results, temp_cropped_path, temp_dir, cache,
           calls, result_imp, overlay, opened, exported, started, log, posted,
           results_db, done_ran, final_message, warnings, progress_bar, edt_ran,
           background, roi_db, image_status_db, unsaved_changes, status_label,
           last_sync, edits, has_project, exists, images_dir, roi_files,
           path_errors, editor, stage_args >>

\* The project directory beside the two tables, and whether a project is
\* open.
disk == << has_project, exists, images_dir, roi_files, path_errors >>

\* The progress display of the current worker's dialog.
display == << progress_bar, edt_ran >>

\* The project tables and the state of the main window that goes with them.
store == << roi_db, image_status_db, unsaved_changes, status_label, last_sync, edits >>

\* Everything but the in-memory project and the project tables: the workers,
\* their dialogs and the directories they write.
batch == << scheduled, images_to_process, pc, future, retval, img_idx, roi_idx,
            total_rois, roi_counter, all_results, temp_cropped_path, temp_dir, cache,
            calls, result_imp, overlay, opened, exported, started, log, posted,
            results_db, done_ran, final_message, warnings, progress_bar, edt_ran,
            background >>

\* temp_cropped_path = None (also the value of a path never assigned)
NoPath == <<>>

\* No image: the value of result_imp before classification returns one.
NoImage == [src |-> <<>>, stage |-> "none"]

\* The worker the variables describe, as one value: the fields of the
\* QuantificationWorker, the locals of its doInBackground, its future and its
\* progress dialog.
Worker ==
    [ images_to_process |-> images_to_process, pc |-> pc, future |-> future,
      retval |-> retval, img_idx |-> img_idx, roi_idx |-> roi_idx,
      total_rois |-> total_rois, roi_counter |-> roi_counter,
      all_results |-> all_results, temp_cropped_path |-> temp_cropped_path,
      result_imp |-> result_imp, overlay |-> overlay, opened |-> opened,
      exported |-> exported, started |-> started, log |-> log, posted |-> posted,
      done_ran |-> done_ran, final_message |-> final_message,
      progress_bar |-> progress_bar, edt_ran |-> edt_ran ]

\* No worker has been created.
NoWorker ==
    [ images_to_process |-> <<>>, pc |-> "none", future |-> "none",
      retval |-> [text |-> "", n |-> 0], img_idx |-> 0, roi_idx |-> 0,
      total_rois |-> 0, roi_counter |-> 0, all_results |-> <<>>,
      temp_cropped_path |-> NoPath, result_imp |-> NoImage, overlay |-> {},
      opened |-> <<>>, exported |-> <<>>, started |-> <<>>, log |-> <<>>,
      posted |-> <<>>, done_ran |-> FALSE,
      final_message |-> [title |-> "", text |-> ""],
      progress_bar |-> 0, edt_ran |-> 0 ]

\* What _analyze_results may find: the particle count, the sum of the Area
\* column, and the outlines left in the RoiManager (one per particle).
AnalysisOutcomes ==
    { [count |-> 0, total_area |-> 0, outlines |-> 0],
      [count |-> 2, total_area |-> 7, outlines |-> 2] }

\* roi.getStatistics().area: fixed by the ROI's geometry, which is not modelled.
RoiArea(filename, roi_name) == 10 * Len(roi_name)

\* Mutant of InitHeaders: the fourth column is spelled bregma_value.
InitHeadersBregma == <<"filename", "roi_name", "roi_area", "bregma_value", "cell_count", "total_cell_area">>

\* headers of Results_DB.csv as written by _verify_and_create_dirs
InitHeaders == <<"filename", "roi_name", "roi_area", "brema_value", "cell_count", "total_cell_area">>

\* headers of Results_DB.csv as written by done()
DoneHeaders == <<"filename", "roi_name", "roi_area", "brema_value", "cell_count", "total_cell_area">>

HeaderRow(headers) == [kind |-> "header", cells |-> headers]
DataRow(result) == [kind |-> "data", cells |-> result]

\* Every (image filename, ROI name) of a project.
Pairs(images) ==
    UNION { {<<images[i].filename, images[i].rois[j].roi_name>> :
                j \in 1..Len(images[i].rois)} : i \in 1..Len(images) }

\* The file at path p exists in the directory d (os.path.exists).
Exists(d, p) == p \in DOMAIN d

\* IJ.saveAs(imp, "Tiff", p): the file at p now holds imp.
SaveAs(d, p, imp) == [q \in (DOMAIN d) \cup {p} |-> IF q = p THEN imp ELSE d[q]]

\* History of one (image, ROI): resolves started, resolves that returned an
\* image, and invocations of each external stage.
Stats(resolves, ok, pixel, object) ==
    [resolves |-> resolves, ok |-> ok, pixel |-> pixel, object |-> object]

\* Results_DB.csv as Project.__init__ leaves it in a new project: created
\* with its header row by _verify_and_create_dirs.
ResultsTables == { <<HeaderRow(InitHeaders)>> }

\* ------------------------------------------------------------ project store

\* headers of Roi_DB.csv and of Image_Status_DB.csv
RoiDbHeaders == <<"filename", "roi_name", "bregma", "status">>
StatusDbHeaders == <<"filename", "status">>

\* Mutant of RoiRows: an image without ROIs gets a row of defaults.
RoiRowsWithDefaults(image) ==
    IF image.rois = <<>>
    THEN << DataRow([filename |-> image.filename, roi_name |-> "N/A",
                     bregma |-> "N/A", status |-> "Pending"]) >>
    ELSE [k \in 1..Len(image.rois) |->
            DataRow([filename |-> image.filename,
                     roi_name |-> image.rois[k].roi_name,
                     bregma   |-> image.rois[k].bregma,
                     status   |-> image.rois[k].status])]

\* The rows _sync_roi_db writes for one image, lines 198-207: none for an
\* image without ROIs, else one per roi_data in list order (every roi_data
\* of the model has the three keys, so no default of .get is taken).
RoiRows(image) ==
    [k \in 1..Len(image.rois) |->
        DataRow([filename |-> image.filename,
                 roi_name |-> image.rois[k].roi_name,
                 bregma   |-> image.rois[k].bregma,
                 status   |-> image.rois[k].status])]

\* Everything _sync_roi_db writes: the header, then the rows image by image.
RECURSIVE RoiDbRows(_)
RoiDbRows(images) ==
    IF images = <<>> THEN <<>> ELSE RoiRows(Head(images)) \o RoiDbRows(Tail(images))

RoiDbContent(images) == <<HeaderRow(RoiDbHeaders)>> \o RoiDbRows(images)

\* Everything _sync_image_status_db writes: the header, then one row per image.
StatusDbContent(images) ==
    <<HeaderRow(StatusDbHeaders)>> \o
    [k \in 1..Len(images) |->
        DataRow([filename |-> images[k].filename, status |-> images[k].status])]

\* with open(db_path, 'wb') and the writes that follow, on a file holding old:
\* open raises and the file is as it was, or open has truncated the file and
\* a write raises after k rows, or every row is written. An IOError makes the
\* caller return False.
WriteTable(old, rows) ==
    { [file |-> old, ok |-> FALSE] } \cup
    { [file |-> SubSeq(rows, 1, k), ok |-> FALSE] : k \in 0..Len(rows) } \cup
    { [file |-> rows, ok |-> TRUE] }

\* _sync_roi_db and _sync_image_status_db
SyncRoiDb(images, old) == WriteTable(old, RoiDbContent(images))
SyncImageStatusDb(images, old) == WriteTable(old, StatusDbContent(images))

\* What one call of sync_project_db did: how each write ended and the value
\* returned.
SyncOutcome(roi, status, returned) == [roi |-> roi, status |-> status, returned |-> returned]

\* No sync_project_db yet.
NoSync == SyncOutcome("none", "none", FALSE)

Ended(w) == IF w.ok THEN "written" ELSE "failed"

\* Mutant of SyncProjectDb: the status table is written only when the ROI
\* table was (roi_success and self._sync_image_status_db()).
SyncProjectDbShortCircuit(images, roi_file, status_file) ==
    { [roi_db |-> r.file, image_status_db |-> t.file,
       outcome |-> SyncOutcome(Ended(r), Ended(t), r.ok /\ t.ok)] :
         r \in {w \in SyncRoiDb(images, roi_file) : w.ok},
         t \in SyncImageStatusDb(images, status_file) } \cup
    { [roi_db |-> r.file, image_status_db |-> status_file,
       outcome |-> SyncOutcome(Ended(r), "none", FALSE)] :
         r \in {w \in SyncRoiDb(images, roi_file) : ~w.ok} }

\* sync_project_db, lines 183-187: both writes, then roi_success and
\* status_success.
SyncProjectDb(images, roi_file, status_file) ==
    { [roi_db |-> r.file, image_status_db |-> t.file,
       outcome |-> SyncOutcome(Ended(r), Ended(t), r.ok /\ t.ok)] :
         r \in SyncRoiDb(images, roi_file),
         t \in SyncImageStatusDb(images, status_file) }

\* Values typed into a cell of the ROI details table, by column.
CellValues ==
    [roi_name |-> {R_s}, bregma |-> {"0.5"}, status |-> {"Modified"}]

\* ------------------------------------------------------- opening a project

\* The characters of the names of the model, in the order of their codes
\* (the order in which Python compares the characters of two str).
Chars ==
    << "-", ".", "0", "1", "2", "3", "4", "5", "6", "7", "8", "9", "_",
       "a", "b", "c", "d", "e", "f", "g", "h", "i", "j", "k", "l", "m",
       "n", "o", "p", "q", "r", "s", "t", "u", "v", "w", "x", "y", "z" >>

Ord(c) == CHOOSE i \in 1..Len(Chars) : Chars[i] = c

\* s < t for two str: at the first position where they differ, or s is a
\* proper prefix of t.
StrLess(s, t) ==
    \E i \in 1..(Len(t)) :
        /\ \A k \in 1..(i - 1) : k <= Len(s) /\ s[k] = t[k]
        /\ i - 1 <= Len(s)
        /\ (i > Len(s) \/ Ord(s[i]) < Ord(t[i]))

\* s.endswith(t)
EndsWithStr(s, t) ==
    Len(t) <= Len(s) /\ SubSeq(s, Len(s) - Len(t) + 1, Len(s)) = t

\* s.split('_')[0]
FirstField(s) ==
    LET us == {i \in 1..Len(s) : s[i] = "_"}
    IN  IF us = {} THEN s
        ELSE SubSeq(s, 1, (CHOOSE i \in us : \A k \in us : i <= k) - 1)

Digits == <<"0", "1", "2", "3", "4", "5", "6", "7", "8", "9">>

IsDigit(c) == \E d \in 1..10 : Digits[d] = c

DigitValue(c) == (CHOOSE d \in 1..10 : Digits[d] = c) - 1

\* Value of a string of decimal digits.
RECURSIVE Decimal(_)
Decimal(s) ==
    IF s = <<>> THEN 0
    ELSE 10 * Decimal(SubSeq(s, 1, Len(s) - 1)) + DigitValue(s[Len(s)])

\* int(s) for a str of the model's characters: an optional sign and at least
\* one digit, anything else raises ValueError.
IntParses(s) ==
    LET body == IF s # <<>> /\ s[1] = "-" THEN Tail(s) ELSE s
    IN  body # <<>> /\ \A i \in 1..Len(body) : IsDigit(body[i])

Int_(s) == IF s[1] = "-" THEN 0 - Decimal(Tail(s)) ELSE Decimal(s)

\* float('inf') as a sort key.
Inf == [inf |-> TRUE, n |-> 0]

\* _get_natural_sort_key, lines 89-94
NaturalSortKey(filename) ==
    IF IntParses(FirstField(filename))
    THEN [inf |-> FALSE, n |-> Int_(FirstField(filename))]
    ELSE Inf

\* a < b for two sort keys (ints and float('inf'))
KeyLess(a, b) == ~a.inf /\ (b.inf \/ a.n < b.n)

\* Mutant of InsertByKey: an image goes before the images with its own key.
RECURSIVE InsertByKeyBeforeEqual(_, _)
InsertByKeyBeforeEqual(sorted, x) ==
    IF sorted = <<>> THEN <<x>>
    ELSE IF ~KeyLess(NaturalSortKey(Head(sorted).filename), NaturalSortKey(x.filename))
         THEN <<x>> \o sorted
         ELSE <<Head(sorted)>> \o InsertByKeyBeforeEqual(Tail(sorted), x)

\* list.sort is stable: an image goes after every image of the sorted part
\* whose key is not greater than its own.
RECURSIVE InsertByKey(_, _)
InsertByKey(sorted, x) ==
    IF sorted = <<>> THEN <<x>>
    ELSE IF KeyLess(NaturalSortKey(x.filename), NaturalSortKey(Head(sorted).filename))
         THEN <<x>> \o sorted
         ELSE <<Head(sorted)>> \o InsertByKey(Tail(sorted), x)

\* self.images.sort(key=self._get_natural_sort_key), line 87
RECURSIVE SortByNaturalKey(_)
SortByNaturalKey(images) ==
    IF images = <<>> THEN <<>>
    ELSE InsertByKey(SortByNaturalKey(SubSeq(images, 1, Len(images) - 1)),
                     images[Len(images)])

\* The elements of a set of str as a sorted list (sorted(os.listdir(...))).
RECURSIVE SortedNames(_)
SortedNames(names) ==
    IF names = {} THEN <<>>
    ELSE LET least == CHOOSE n \in names : \A m \in names \ {n} : StrLess(n, m)
         IN  <<least>> \o SortedNames(names \ {least})

\* roi_path, relative to project.paths['rois'] (ProjectImage.__init__)
RoiPath(filename) ==
    Stem(filename) \o <<"_", "R", "O", "I", "s", ".", "z", "i", "p">>

\* The rows a csv.DictReader yields for a table: the cells of the rows after
\* the header row; none for an empty file.
ReadRows(table) == [k \in 1..(Len(table) - 1) |-> table[k + 1].cells]

\* The distinct filenames of a list of rows.
Filenames(rows) == {rows[k].filename : k \in 1..Len(rows)}

\* The status the loop over the status table leaves on the entry of a
\* filename: that of its last row.
StatusOf(rows, filename) ==
    LET at == {k \in 1..Len(rows) : rows[k].filename = filename}
    IN  rows[CHOOSE k \in at : \A j \in at : j <= k].status

\* The rows of the ROI table added to the entry of a filename by add_roi, in
\* row order. Each is the row's dict; its 'filename' item is read by nothing
\* and is left out here.
RoisOf(rows, filename) ==
    LET mine == SelectSeq(rows, LAMBDA row : row.filename = filename)
    IN  [k \in 1..Len(mine) |->
            [roi_name |-> mine[k].roi_name, bregma |-> mine[k].bregma,
             status |-> mine[k].status]]

\* Mutant of PopulateRoisFromZip: the archive replaces the ROI list it finds.
PopulateRoisAlways(image, archives) ==
    IF RoiPath(image.filename) \in DOMAIN archives
    THEN [image EXCEPT !.rois =
            [k \in 1..Len(archives[RoiPath(image.filename)]) |->
                [roi_name |-> archives[RoiPath(image.filename)][k],
                 bregma |-> "N/A", status |-> "From File"]]]
    ELSE image

\* populate_rois_from_zip, lines 55-75
PopulateRoisFromZip(image, archives) ==
    IF RoiPath(image.filename) \in DOMAIN archives /\ image.rois = <<>>
    THEN [image EXCEPT !.rois =
            [k \in 1..Len(archives[RoiPath(image.filename)]) |->
                [roi_name |-> archives[RoiPath(image.filename)][k],
                 bregma |-> "N/A", status |-> "From File"]]]
    ELSE image

\* _load_project_db, lines 135-168: an entry for every filename of either
\* table, with the status of the status table ("New" without a row there)
\* and the rows of the ROI table, filled from its archive when it has no
\* row, in the order of the filenames.
LoadProjectDb(status_table, roi_table, archives) ==
    LET status_rows == ReadRows(status_table)
        roi_rows    == ReadRows(roi_table)
        names       == SortedNames(Filenames(status_rows) \cup Filenames(roi_rows))
    IN  [k \in 1..Len(names) |->
            PopulateRoisFromZip(
                ProjectImage(names[k],
                             IF names[k] \in Filenames(status_rows)
                             THEN StatusOf(status_rows, names[k]) ELSE "New",
                             RoisOf(roi_rows, names[k])),
                archives)]

\* The name ends with one of the four image extensions, dot included.
RecognizedExtension(f) ==
    \/ EndsWithStr(f, <<".", "t", "i", "f">>)
    \/ EndsWithStr(f, <<".", "t", "i", "f", "f">>)
    \/ EndsWithStr(f, <<".", "j", "p", "g">>)
    \/ EndsWithStr(f, <<".", "j", "p", "e", "g">>)

\* f.lower().endswith(('.tif', '.tiff', 'jpg', 'jpeg')), line 177, for the
\* names of the model, which have no capital letter.
Recognized(f) ==
    \/ EndsWithStr(f, <<".", "t", "i", "f">>)
    \/ EndsWithStr(f, <<".", "t", "i", "f", "f">>)
    \/ EndsWithStr(f, <<"j", "p", "g">>)
    \/ EndsWithStr(f, <<"j", "p", "e", "g">>)

\* _scan_for_new_images, lines 170-181: without the images directory
\* nothing; else the recognized files that have no entry are appended in
\* the order of their names, Untracked, filled from their archive.
ScanForNewImages(images, paths, files, archives) ==
    IF "images" \notin paths THEN images
    ELSE LET existing_filenames == {images[k].filename : k \in 1..Len(images)}
             new == SortedNames({f \in files : Recognized(f) /\ f \notin existing_filenames})
         IN  images \o [k \in 1..Len(new) |->
                          PopulateRoisFromZip(ProjectImage(new[k], "Untracked", <<>>),
                                              archives)]

\* Project.images at the end of Project.__init__, lines 84-87.
LoadedImages(status_table, roi_table, paths, files, archives) ==
    SortByNaturalKey(
        ScanForNewImages(LoadProjectDb(status_table, roi_table, archives),
                         paths, files, archives))

\* The keys of Project.paths, lines 124-133: five directories and three
\* tables.
DirKeys == {"images", "rois", "processed", "probabilities", "temp"}
CsvKeys == {"roi_db", "image_status_db", "results_db"}
PathKeys == DirKeys \cup CsvKeys

\* ------------------------------------------------------------------ initial

\* What the two stages are given: the classifier files named by the
\* settings, and the cropped image, each known by the version of its content
\* (a classifier file can be replaced between two batches, and the crop
\* changes with the geometry of the ROI in the archive).
StageArgs(pixel_classifier, object_classifier, cropped) ==
    [pixel_classifier |-> pixel_classifier, object_classifier |-> object_classifier,
     cropped |-> cropped]

\* A ROIEditor on the image at index image of Project.images (0 when no
\* editor is open): the names of the ROIs of its RoiManager, the names shown
\* in its JList and the selected index of the list (0 for -1).
Editor(image, rm, roi_list_model, selected) ==
    [image |-> image, rm |-> rm, roi_list_model |-> roi_list_model, selected |-> selected]

NoEditor == Editor(0, <<>>, <<>>, 0)

\* No worker has been created, nothing has been edited or saved, no
\* directory error has been logged and no editor is open.
Idle ==
    /\ scheduled = 0
    /\ images_to_process = <<>>
    /\ pc = "none"
    /\ future = "none"
    /\ retval = [text |-> "", n |-> 0]
    /\ img_idx = 0
    /\ roi_idx = 0
    /\ total_rois = 0
    /\ roi_counter = 0
    /\ all_results = <<>>
    /\ temp_cropped_path = NoPath
    /\ temp_dir = {}
    /\ cache = <<>>
    /\ result_imp = NoImage
    /\ overlay = {}
    /\ opened = <<>>
    /\ exported = <<>>
    /\ started = <<>>
    /\ log = <<>>
    /\ posted = <<>>
    /\ done_ran = FALSE
    /\ final_message = [title |-> "", text |-> ""]
    /\ warnings = {}
    /\ progress_bar = 0
    /\ edt_ran = 0
    /\ background = NoWorker
    /\ unsaved_changes = FALSE
    /\ status_label = ""
    /\ last_sync = NoSync
    /\ edits = 0
    /\ path_errors = {}
    /\ editor = NoEditor
    /\ stage_args = StageArgs("1", "1", "1")

\* The archives of a project whose images have the ROIs of their archive.
ArchivesOf(images) ==
    [a \in {RoiPath(images[i].filename) : i \in {k \in 1..Len(images) : images[k].rois # <<>>}} |->
        LET i == CHOOSE k \in 1..Len(images) :
                    RoiPath(images[k].filename) = a /\ images[k].rois # <<>>
        IN  [k \in 1..Len(images[i].rois) |-> images[i].rois[k].roi_name]]

\* A project is open and saved: the tables hold what a sync writes, the
\* images are in the images directory and every path exists.
Init ==
    /\ project \in Projects
    /\ Idle
    /\ calls = [p \in Pairs(project) |-> Stats(0, 0, 0, 0)]
    /\ results_db \in ResultsTables
    /\ roi_db = RoiDbContent(project)
    /\ image_status_db = StatusDbContent(project)
    /\ has_project = TRUE
    /\ exists = PathKeys
    /\ images_dir = {project[i].filename : i \in 1..Len(project)}
    /\ roi_files = ArchivesOf(project)

\* ------------------------------------------------- classification cache


\* One way _run_ilastik_classification may end: whether it raised, the cache
\* directory it leaves, the stages it invoked and the image it returns.
Outcome(raised, c, pixel, object, imp) ==
    [raised |-> raised, cache |-> c, pixel |-> pixel, object |-> object, result_imp |-> imp]

\* Output image of a stage run on the cropped image of (filename, roi_name):
\* it is made from what the stage is given.
StageOutput(stage, filename, roi_name) ==
    [src |-> <<filename, roi_name>>, stage |-> stage, args |-> stage_args]

\* Mutant of ObjectStage: the output of the object stage is returned but not
\* saved to the cache.
ObjectStageNoSave(c, filename, roi_name, pixel) ==
    { [raised |-> FALSE, cache |-> c, pixel |-> pixel, object |-> 1,
       result_imp |-> StageOutput("object", filename, roi_name)],
      [raised |-> TRUE, cache |-> c, pixel |-> pixel, object |-> 1, result_imp |-> NoImage] }

\* The object stage on the cropped image and the pixel artifact, in cache
\* directory c: it yields an output, which is saved and returned, or none.
ObjectStage(c, filename, roi_name, pixel) ==
    LET object_prob_path == ObjectProbPath(BaseName(filename, roi_name))
        out == StageOutput("object", filename, roi_name)
    IN  { Outcome(FALSE, SaveAs(c, object_prob_path, out), pixel, 1, out),
          Outcome(TRUE, c, pixel, 1, NoImage) }

\* Mutant of RunIlastikClassification: the object-tier artifact is not looked
\* for, only the pixel-tier one.
RunIlastikNoObjectCheck(c, filename, roi_name) ==
    LET base == BaseName(filename, roi_name)
        pixel_prob_path == PixelProbPath(base)
        probs == StageOutput("pixel", filename, roi_name)
    IN  IF Exists(c, pixel_prob_path)
        THEN ObjectStage(c, filename, roi_name, 0)
        ELSE { Outcome(TRUE, c, 1, 0, NoImage) } \cup
             ObjectStage(SaveAs(c, pixel_prob_path, probs), filename, roi_name, 1)

\* Mutant of RunIlastikClassification: on the cold path the pixel output is
\* saved only once the object stage has produced its output.
RunIlastikLatePixelSave(c, filename, roi_name) ==
    LET base == BaseName(filename, roi_name)
        pixel_prob_path == PixelProbPath(base)
        object_prob_path == ObjectProbPath(base)
        probs == StageOutput("pixel", filename, roi_name)
    IN  IF Exists(c, object_prob_path)
        THEN { Outcome(FALSE, c, 0, 0, c[object_prob_path]) }
        ELSE IF Exists(c, pixel_prob_path)
        THEN ObjectStage(c, filename, roi_name, 0)
        ELSE { Outcome(TRUE, c, 1, 0, NoImage), Outcome(TRUE, c, 1, 1, NoImage) } \cup
             { o \in ObjectStage(SaveAs(c, pixel_prob_path, probs), filename, roi_name, 1) :
                 ~o.raised }

\* Mutant of RunIlastikClassification: on the cold path the pixel output is
\* handed to the object stage without being saved.
RunIlastikPixelNotSaved(c, filename, roi_name) ==
    LET base == BaseName(filename, roi_name)
        pixel_prob_path == PixelProbPath(base)
        object_prob_path == ObjectProbPath(base)
    IN  IF Exists(c, object_prob_path)
        THEN { Outcome(FALSE, c, 0, 0, c[object_prob_path]) }
        ELSE IF Exists(c, pixel_prob_path)
        THEN ObjectStage(c, filename, roi_name, 0)
        ELSE { Outcome(TRUE, c, 1, 0, NoImage) } \cup
             ObjectStage(c, filename, roi_name, 1)

\* Mutant of RunIlastikClassification: a cached artifact is used only when
\* it was made from what the stages are given now.
RunIlastikChecksArgs(c, filename, roi_name) ==
    LET base == BaseName(filename, roi_name)
        pixel_prob_path == PixelProbPath(base)
        object_prob_path == ObjectProbPath(base)
        probs == StageOutput("pixel", filename, roi_name)
    IN  IF Exists(c, object_prob_path) /\ c[object_prob_path].args = stage_args
        THEN { Outcome(FALSE, c, 0, 0, c[object_prob_path]) }
        ELSE IF Exists(c, pixel_prob_path) /\ c[pixel_prob_path].args = stage_args
        THEN ObjectStage(c, filename, roi_name, 0)
        ELSE { Outcome(TRUE, c, 1, 0, NoImage) } \cup
             ObjectStage(SaveAs(c, pixel_prob_path, probs), filename, roi_name, 1)

\* _run_ilastik_classification: every way it may end from cache directory c.
RunIlastikClassification(c, filename, roi_name) ==
    LET base == BaseName(filename, roi_name)
        pixel_prob_path == PixelProbPath(base)
        object_prob_path == ObjectProbPath(base)
        probs == StageOutput("pixel", filename, roi_name)
    IN  IF Exists(c, object_prob_path)
        THEN { Outcome(FALSE, c, 0, 0, c[object_prob_path]) }
        ELSE IF Exists(c, pixel_prob_path)
        THEN ObjectStage(c, filename, roi_name, 0)
        ELSE { Outcome(TRUE, c, 1, 0, NoImage) } \cup
             ObjectStage(SaveAs(c, pixel_prob_path, probs), filename, roi_name, 1)

\* ------------------------------------------------------------ batch worker

\* self.isCancelled()
IsCancelled == future = "cancelled"

\* if self.isCancelled(): break, at the top of the image loop (line 1050)
ImageLoopBreaks == IsCancelled

\* Mutant of RoiLoopBreaks: the ROI loop never looks at the flag.
RoiLoopNeverBreaks == FALSE

\* if self.isCancelled(): break, at the top of the ROI loop (line 1066)
RoiLoopBreaks == IsCancelled

image_obj == images_to_process[img_idx]

\* Mutant of roi_data: the ROI list is walked from its end.
RoiDataBackwards == image_obj.rois[Len(image_obj.rois) + 1 - roi_idx]

roi_data  == image_obj.rois[roi_idx]

\* The worker thread is not inside doInBackground.
WorkerStopped ==
    \/ pc \in {"none", "finished"}
    \/ pc = "pending" /\ future = "cancelled"

\* doInBackground returns: the future completes unless it was cancelled.
Return(text, n) ==
    /\ pc' = "finished"
    /\ retval' = [text |-> text, n |-> n]
    /\ future' = IF future = "new" THEN "returned" ELSE future

\* doInBackground raises.
Raise ==
    /\ pc' = "finished"
    /\ future' = IF future = "new" THEN "raised" ELSE future
    /\ UNCHANGED retval

\* Mutant of ExceptHandler: the error is swallowed without a log line.
ExceptHandlerSilent(lines, filename, roi_name) == lines

\* except Exception as e: IJ.log("ERROR processing ROI ... in ...")
ExceptHandler(lines, filename, roi_name) ==
    Append(lines, [roi_name |-> roi_name, filename |-> filename])

\* single_roi_result (line 1107)
SingleRoiResult(image, roi, analysis) ==
    [ filename        |-> image.filename,
      roi_name        |-> roi.roi_name,
      roi_area        |-> RoiArea(image.filename, roi.roi_name),
      brema_value     |-> roi.bregma,
      cell_count      |-> analysis.count,
      total_cell_area |-> analysis.total_area ]

\* Mutant of Progress: the quotient is truncated before it is scaled.
ProgressTruncatedFirst(counter, total) == 100 * (counter \div total)

\* int(100.0 * roi_counter / total_rois)
Progress(counter, total) == (100 * counter) \div total

\* Mutant of ExportPath: the extension of the image file is kept.
ExportPathOfFilename(filename) ==
    filename \o <<"_", "p", "r", "o", "c", "e", "s", "s", "e", "d", ".", "t", "i", "f", "f">>

\* export_path, relative to project.paths['processed']
ExportPath(filename) ==
    Stem(filename) \o <<"_", "p", "r", "o", "c", "e", "s", "s", "e", "d", ".", "t", "i", "f", "f">>

\* open_quantification_dialog_action, lines 420-432: the dialog returns
\* settings for the selected images, and a new worker with a new progress
\* dialog is created and executed. Nothing in the handler looks at a worker
\* started earlier.
Execute ==
    /\ \E sel \in Selections(project) :
         /\ scheduled + TotalRois(sel) <= MaxScheduled
         /\ images_to_process' = sel
         /\ scheduled' = scheduled + TotalRois(sel)
    /\ pc' = "pending"
    /\ future' = "new"
    /\ retval' = [text |-> "", n |-> 0]
    /\ img_idx' = 0
    /\ roi_idx' = 0
    /\ total_rois' = 0
    /\ roi_counter' = 0
    /\ all_results' = <<>>
    /\ temp_cropped_path' = NoPath
    /\ result_imp' = NoImage
    /\ overlay' = {}
    /\ opened' = <<>>
    /\ exported' = <<>>
    /\ started' = <<>>
    /\ log' = <<>>
    /\ posted' = <<>>
    /\ done_ran' = FALSE
    /\ final_message' = [title |-> "", text |-> ""]
    /\ progress_bar' = 0
    /\ edt_ran' = 0
    /\ UNCHANGED << project, temp_dir, cache, calls, results_db, warnings, store, disk, stage_args, editor >>

\* The user runs a quantification when no worker is alive: the first one of
\* the session, or one after the done() of the worker before it.
StartBatch ==
    /\ WorkerStopped
    /\ future = "none" \/ done_ran
    /\ Execute
    /\ UNCHANGED background

\* The worker of the variables is alive: its thread is in doInBackground or
\* its done() has not run.
Alive == future # "none" /\ (~WorkerStopped \/ ~done_ran)

\* The user runs a quantification while the worker started before is alive
\* (the progress dialog is not modal and the button stays enabled): that
\* worker goes on as the background worker of the model.
StartSecondBatch ==
    /\ Alive
    /\ background = NoWorker
    /\ background' = Worker
    /\ Execute

\* The two workers run on threads of the SwingWorker pool and their done()
\* on the control thread, in any interleaving: the next steps are those of
\* the other worker.
Switch ==
    /\ background # NoWorker
    /\ ~(background.pc = "finished" /\ background.done_ran)
    /\ background' = Worker
    /\ images_to_process' = background.images_to_process
    /\ pc' = background.pc
    /\ future' = background.future
    /\ retval' = background.retval
    /\ img_idx' = background.img_idx
    /\ roi_idx' = background.roi_idx
    /\ total_rois' = background.total_rois
    /\ roi_counter' = background.roi_counter
    /\ all_results' = background.all_results
    /\ temp_cropped_path' = background.temp_cropped_path
    /\ result_imp' = background.result_imp
    /\ overlay' = background.overlay
    /\ opened' = background.opened
    /\ exported' = background.exported
    /\ started' = background.started
    /\ log' = background.log
    /\ posted' = background.posted
    /\ done_ran' = background.done_ran
    /\ final_message' = background.final_message
    /\ progress_bar' = background.progress_bar
    /\ edt_ran' = background.edt_ran
    /\ UNCHANGED << project, scheduled, temp_dir, cache, calls, results_db, warnings,
                    store, disk, stage_args, editor >>

\* Mutant of Begin: the image loop is entered whatever the total is.
BeginWithoutTotalCheck ==
    /\ pc = "pending"
    /\ future = "new"
    /\ total_rois' = TotalRois(images_to_process)
    /\ roi_counter' = 0
    /\ img_idx' = 1
    /\ pc' = "image"
    /\ UNCHANGED << future, retval >>
    /\ UNCHANGED << project, scheduled, images_to_process, roi_idx, all_results,
                    temp_cropped_path, temp_dir, cache, calls, result_imp, overlay,
                    opened, exported, started, log, posted, results_db, done_ran,
                    final_message >>
    /\ UNCHANGED << warnings, display, background, store, disk, stage_args, editor >>

\* doInBackground, lines 1043-1047.
Begin ==
    /\ pc = "pending"
    /\ future = "new"
    /\ total_rois' = TotalRois(images_to_process)
    /\ IF total_rois' = 0
       THEN /\ Return("No ROIs to process.", 0)
            /\ UNCHANGED << img_idx, roi_counter >>
       ELSE /\ roi_counter' = 0
            /\ img_idx' = 1
            /\ pc' = "image"
            /\ UNCHANGED << future, retval >>
    /\ UNCHANGED << project, scheduled, images_to_process, roi_idx, all_results,
                    temp_cropped_path, temp_dir, cache, calls, result_imp, overlay,
                    opened, exported, started, log, posted, results_db, done_ran,
                    final_message >>
    /\ UNCHANGED << warnings, display, background, store, disk, stage_args, editor >>

\* IJ.openImage(full_path): no image, or the image of the file, which carries
\* an overlay when the file is a TIFF that stores one.
OpenImage(filename) ==
    { [opened |-> FALSE, overlay |-> {}],
      [opened |-> TRUE,  overlay |-> {}] }
    \cup (IF LastDot(filename) > 0
             /\ SubSeq(filename, LastDot(filename), Len(filename)) = <<".", "t", "i", "f">>
          THEN { [opened |-> TRUE, overlay |-> {"stored"}] }
          ELSE {})

\* Top of the image loop, lines 1049-1061: the loop ends, or the flag is set,
\* or the image is opened, or it fails to open.
ImageStep ==
    /\ pc = "image"
    /\ IF img_idx > Len(images_to_process) \/ ImageLoopBreaks
       THEN /\ Return("Batch processing complete.", roi_counter)
            /\ UNCHANGED << opened, overlay, roi_idx >>
       ELSE \E imp_original \in OpenImage(image_obj.filename) :
              IF imp_original.opened
              THEN /\ opened' = Append(opened, image_obj.filename)
                   /\ overlay' = imp_original.overlay
                   /\ roi_idx' = 1
                   /\ pc' = "roi"
                   /\ UNCHANGED << future, retval >>
              ELSE /\ Raise
                   /\ UNCHANGED << opened, overlay, roi_idx >>
    /\ UNCHANGED << project, scheduled, images_to_process, img_idx, total_rois,
                    roi_counter, all_results, temp_cropped_path, temp_dir, cache,
                    calls, result_imp, exported, started, log, posted, results_db,
                    done_ran, final_message >>
    /\ UNCHANGED << warnings, display, background, store, disk, stage_args, editor >>

\* Top of the ROI loop, lines 1065-1070.
RoiStep ==
    /\ pc = "roi"
    /\ IF roi_idx > Len(image_obj.rois) \/ RoiLoopBreaks
       THEN /\ pc' = "export"
            /\ UNCHANGED << started, temp_cropped_path >>
       ELSE /\ started' = Append(started, <<image_obj.filename, roi_data.roi_name>>)
            /\ temp_cropped_path' = NoPath
            /\ pc' = "crop"
    /\ UNCHANGED << project, scheduled, images_to_process, future, retval, img_idx,
                    roi_idx, total_rois, roi_counter, all_results, temp_dir, cache,
                    calls, result_imp, overlay, opened, exported, log, posted,
                    results_db, done_ran, final_message >>
    /\ UNCHANGED << warnings, display, background, store, disk, stage_args, editor >>

\* Lines 1072-1099: the ROI is looked up in the archive and the crop saved to
\* the temp directory; a missing ROI or a failed crop raises before the save.
RoiCrop ==
    /\ pc = "crop"
    /\ \E outcome \in {"saved", "roi not found", "crop failed"} :
         IF outcome = "saved"
         THEN /\ temp_cropped_path' = TempPath(image_obj.filename, roi_data.roi_name)
              /\ temp_dir' = temp_dir \cup {temp_cropped_path'}
              /\ pc' = "classify"
              /\ UNCHANGED log
         ELSE /\ log' = ExceptHandler(log, image_obj.filename, roi_data.roi_name)
              /\ pc' = "finally"
              /\ UNCHANGED << temp_cropped_path, temp_dir >>
    /\ UNCHANGED << project, scheduled, images_to_process, future, retval, img_idx,
                    roi_idx, total_rois, roi_counter, all_results, cache, calls,
                    result_imp, overlay, opened, exported, started, posted,
                    results_db, done_ran, final_message >>
    /\ UNCHANGED << warnings, display, background, store, disk, stage_args, editor >>

\* Line 1102 with _run_ilastik_classification, lines 1187-1249.
RoiClassify ==
    /\ pc = "classify"
    /\ \E o \in RunIlastikClassification(cache, image_obj.filename, roi_data.roi_name) :
         LET pair == <<image_obj.filename, roi_data.roi_name>>
         IN  /\ cache' = o.cache
             /\ calls' = [calls EXCEPT ![pair] =
                            Stats(@.resolves + 1, @.ok + (IF o.raised THEN 0 ELSE 1),
                                  @.pixel + o.pixel, @.object + o.object)]
             /\ IF o.raised
                THEN /\ log' = ExceptHandler(log, image_obj.filename, roi_data.roi_name)
                     /\ pc' = "finally"
                     /\ UNCHANGED result_imp
                ELSE /\ result_imp' = o.result_imp
                     /\ pc' = "analyze"
                     /\ UNCHANGED log
    /\ UNCHANGED << project, scheduled, images_to_process, future, retval, img_idx,
                    roi_idx, total_rois, roi_counter, all_results, temp_cropped_path,
                    temp_dir, overlay, opened, exported, started, posted, results_db,
                    done_ran, final_message >>
    /\ UNCHANGED << warnings, display, background, store, disk, stage_args, editor >>

\* Lines 1105-1138: analysis, the result record, the outlines on the overlay.
RoiAnalyze ==
    /\ pc = "analyze"
    /\ \/ \E analysis \in AnalysisOutcomes :
            /\ all_results' = Append(all_results, SingleRoiResult(image_obj, roi_data, analysis))
            /\ overlay' = IF analysis.outlines > 0 THEN overlay \cup {"outlines"}
                           ELSE overlay
            /\ UNCHANGED log
       \/ /\ log' = ExceptHandler(log, image_obj.filename, roi_data.roi_name)
          /\ UNCHANGED << all_results, overlay >>
    /\ pc' = "finally"
    /\ UNCHANGED << project, scheduled, images_to_process, future, retval, img_idx,
                    roi_idx, total_rois, roi_counter, temp_cropped_path, temp_dir,
                    cache, calls, result_imp, opened, exported, started, posted,
                    results_db, done_ran, final_message >>
    /\ UNCHANGED << warnings, display, background, store, disk, stage_args, editor >>

\* Mutant of Remove: the file is left where it is and nothing is raised.
RemoveNever(d, path) == { [dir |-> d, raised |-> FALSE] }

\* os.remove(path) on a file of directory d: the file is deleted, or the call
\* raises and the file stays.
Remove(d, path) == { [dir |-> d \ {path}, raised |-> FALSE], [dir |-> d, raised |-> TRUE] }

\* The finally block, lines 1144-1154, and the step to the next ROI: the crop
\* is removed if it exists, and a removal that raises is logged as a warning.
RoiFinally ==
    /\ pc = "finally"
    /\ IF temp_cropped_path # NoPath /\ temp_cropped_path \in temp_dir
       THEN \E r \in Remove(temp_dir, temp_cropped_path) :
              /\ temp_dir' = r.dir
              /\ warnings' = IF r.raised THEN warnings \cup {temp_cropped_path}
                             ELSE warnings
       ELSE UNCHANGED << temp_dir, warnings >>
    /\ roi_counter' = roi_counter + 1
    /\ posted' = Append(posted, Progress(roi_counter', total_rois))
    /\ roi_idx' = roi_idx + 1
    /\ pc' = "roi"
    /\ UNCHANGED << project, scheduled, images_to_process, future, retval, img_idx,
                    total_rois, all_results, temp_cropped_path, cache, calls,
                    result_imp, overlay, opened, exported, started, log, results_db,
                    done_ran, final_message >>
    /\ UNCHANGED << display, background, store, disk, stage_args, editor >>

\* Image-level finalization, lines 1156-1183, and the step to the next image.
Export ==
    /\ pc = "export"
    /\ exported' = Append(exported, [path |-> ExportPath(image_obj.filename),
                                     flattened |-> overlay # {}])
    /\ img_idx' = img_idx + 1
    /\ pc' = "image"
    /\ UNCHANGED << project, scheduled, images_to_process, future, retval, roi_idx,
                    total_rois, roi_counter, all_results, temp_cropped_path, temp_dir,
                    cache, calls, result_imp, overlay, opened, started, log, posted,
                    results_db, done_ran, final_message >>
    /\ UNCHANGED << warnings, display, background, store, disk, stage_args, editor >>

\* ------------------------------------------------------------ completion

\* writer.writerows(results)
Rows(results) == [k \in 1..Len(results) |-> DataRow(results[k])]

\* Mutant of WriteResults: the header is written on every save.
WriteResultsAlwaysHeader(db, results) ==
    IF results = <<>> THEN db
    ELSE db \o <<HeaderRow(DoneHeaders)>> \o Rows(results)

\* Lines 1316-1324: the rows of the table after done() has saved the results.
WriteResults(db, results) ==
    IF results = <<>> THEN db
    ELSE (IF Len(db) = 0 THEN <<HeaderRow(DoneHeaders)>> ELSE db) \o Rows(results)

\* Mutant of FinalMessage: done() reports the status without asking the
\* future for its outcome.
FinalMessageAlwaysStatus(fut, ret) == [title |-> "Status", text |-> ret.text]

\* Lines 1327-1331: the dialog done() shows; self.get() returns the value of
\* doInBackground, or raises what it raised or that the worker was cancelled.
FinalMessage(fut, ret) ==
    IF fut = "returned"
    THEN [title |-> "Status", text |-> ret.text]
    ELSE [title |-> "Error", text |-> "An error occurred during processing:"]

\* Mutant of DoneBody: self.get() is called before the results are saved, so
\* nothing is saved unless doInBackground returned.
DoneBodyGetFirst(fut) ==
    /\ results_db' = IF fut = "returned" THEN WriteResults(results_db, all_results)
                     ELSE results_db
    /\ final_message' = FinalMessage(fut, retval)
    /\ done_ran' = TRUE
    /\ UNCHANGED << project, roi_db, image_status_db >>

\* Mutant of DoneBody: done() also marks every image as processed and
\* rewrites the status table.
DoneBodyMarksImages(fut) ==
    /\ results_db' = WriteResults(results_db, all_results)
    /\ final_message' = FinalMessage(fut, retval)
    /\ done_ran' = TRUE
    /\ project' = [k \in 1..Len(project) |-> [project[k] EXCEPT !.status = "Processed"]]
    /\ image_status_db' = StatusDbContent(project')
    /\ UNCHANGED roi_db

\* done(), for a future in state fut: of the files of the project it writes
\* the results table only, and it leaves the project in memory as it is.
DoneBody(fut) ==
    /\ results_db' = WriteResults(results_db, all_results)
    /\ final_message' = FinalMessage(fut, retval)
    /\ done_ran' = TRUE
    /\ UNCHANGED << project, roi_db, image_status_db >>

\* done() on the control thread once doInBackground has returned or raised.
Done ==
    /\ future \in {"returned", "raised"}
    /\ ~done_ran
    /\ DoneBody(future)
    /\ UNCHANGED << scheduled, images_to_process, pc, future, retval, img_idx,
                    roi_idx, total_rois, roi_counter, all_results, temp_cropped_path,
                    temp_dir, cache, calls, result_imp, overlay, opened, exported,
                    started, log, posted >>
    /\ UNCHANGED << warnings, display, background, unsaved_changes, status_label,
                    last_sync, edits, disk, stage_args, editor >>

\* cancel() from the control thread: the future completes as cancelled and
\* done() runs at once on the calling (control) thread, whatever the worker
\* thread is doing.
Cancel ==
    /\ future = "new"
    /\ future' = "cancelled"
    /\ DoneBody("cancelled")
    /\ UNCHANGED << scheduled, images_to_process, pc, retval, img_idx, roi_idx,
                    total_rois, roi_counter, all_results, temp_cropped_path, temp_dir,
                    cache, calls, result_imp, overlay, opened, exported, started, log,
                    posted >>
    /\ UNCHANGED << warnings, display, background, unsaved_changes, status_label,
                    last_sync, edits, disk, stage_args, editor >>

\* UpdateProgressBarTask.run on the control thread, lines 1040-1041: the
\* tasks handed to invokeLater run one by one, in the order they were posted.
UpdateProgressBar ==
    /\ edt_ran < Len(posted)
    /\ progress_bar' = posted[edt_ran + 1]
    /\ edt_ran' = edt_ran + 1
    /\ UNCHANGED << project, scheduled, images_to_process, pc, future, retval, img_idx,
                    roi_idx, total_rois, roi_counter, all_results, temp_cropped_path,
                    temp_dir, cache, calls, result_imp, overlay, opened, exported,
                    started, log, posted, results_db, done_ran, final_message,
                    warnings, background, store, disk, stage_args, editor >>

\* ------------------------------------------------- edits and saves

\* EditableROIsTableModel.setValueAt on the ROI details table of the one
\* selected image, lines 873-877, and the listener of on_image_selection
\* that marks the project as changed.
SetValueAt ==
    /\ edits < MaxEdits
    /\ \E i \in 1..Len(project) :
         \E rowIndex \in 1..Len(project[i].rois) :
           \E key \in DOMAIN CellValues :
             \E aValue \in CellValues[key] :
               project' = [project EXCEPT ![i].rois[rowIndex][key] = aValue]
    /\ unsaved_changes' = TRUE
    /\ edits' = edits + 1
    /\ UNCHANGED << batch, disk, stage_args, editor, roi_db, image_status_db, status_label, last_sync >>

\* Mutant of SaveProjectAction: the unsaved-changes flag is cleared whatever
\* sync_project_db returns.
SaveProjectActionClearsFlag ==
    /\ has_project
    /\ unsaved_changes
    /\ \E o \in SyncProjectDb(project, roi_db, image_status_db) :
         /\ roi_db' = o.roi_db
         /\ image_status_db' = o.image_status_db
         /\ last_sync' = o.outcome
         /\ status_label' = IF o.outcome.returned THEN "Project saved successfully."
                            ELSE "Error saving project. See Log."
         /\ unsaved_changes' = FALSE
    /\ UNCHANGED << batch, disk, stage_args, editor, project, edits >>

\* save_project_action, lines 352-364, with a project that has unsaved
\* changes (without them the handler returns at once).
SaveProjectAction ==
    /\ has_project
    /\ unsaved_changes
    /\ \E o \in SyncProjectDb(project, roi_db, image_status_db) :
         /\ roi_db' = o.roi_db
         /\ image_status_db' = o.image_status_db
         /\ last_sync' = o.outcome
         /\ IF o.outcome.returned
            THEN /\ status_label' = "Project saved successfully."
                 /\ unsaved_changes' = FALSE
            ELSE /\ status_label' = "Error saving project. See Log."
                 /\ UNCHANGED unsaved_changes
    /\ UNCHANGED << batch, disk, stage_args, editor, project, edits >>

\* ------------------------------------------- opening and importing

\* _verify_and_create_dirs, lines 96-120, on the keys that exist: every
\* missing path is created, in the order of the dict. os.makedirs raises
\* OSError, which is logged; open() raises IOError, which the handler does
\* not name and which leaves the function with the later keys not visited.
VerifyAndCreateDirs(paths) ==
    LET missing == PathKeys \ paths
    IN  { [exists |-> paths \cup (missing \ fail), errors |-> fail, raised |-> FALSE] :
            fail \in SUBSET (missing \cap DirKeys) }
        \cup
        UNION { { [exists |-> paths \cup (visited \ fail), errors |-> fail,
                   raised |-> TRUE] :
                    fail \in SUBSET (visited \cap DirKeys) } :
                visited \in {v \in SUBSET missing : (missing \cap CsvKeys) \ v # {}} }

\* Mutant of TableAfter: a table that is created is left empty.
TableAfterWithoutHeader(key, headers, old, before, after) ==
    IF key \in after \ before THEN <<>> ELSE old

\* The table of a key after _verify_and_create_dirs: the header row when
\* the file was created, else what the file held.
TableAfter(key, headers, old, before, after) ==
    IF key \in after \ before THEN <<HeaderRow(headers)>> ELSE old

\* load_project, lines 502-517, on the project directory: Project.__init__
\* creates the missing paths, loads the tables, scans the images directory
\* and sorts; an exception leaves the project of the window as it was.
LoadProject ==
    /\ \E v \in VerifyAndCreateDirs(exists) :
         /\ exists' = v.exists
         /\ path_errors' = path_errors \cup v.errors
         /\ roi_db' = TableAfter("roi_db", RoiDbHeaders, roi_db, exists, v.exists)
         /\ image_status_db' = TableAfter("image_status_db", StatusDbHeaders,
                                          image_status_db, exists, v.exists)
         /\ results_db' = TableAfter("results_db", InitHeaders, results_db,
                                     exists, v.exists)
         /\ IF v.raised
            THEN /\ status_label' = "Error Loading Project. See Log for details"
                 /\ UNCHANGED << project, has_project, unsaved_changes >>
            ELSE /\ project' = LoadedImages(image_status_db', roi_db', exists',
                                            images_dir, roi_files)
                 /\ has_project' = TRUE
                 /\ status_label' = "Sucessfully loaded project"
                 /\ unsaved_changes' = FALSE
    /\ UNCHANGED << scheduled, images_to_process, pc, future, retval, img_idx, roi_idx,
                    total_rois, roi_counter, all_results, temp_cropped_path, temp_dir,
                    cache, calls, result_imp, overlay, opened, exported, started, log,
                    posted, done_ran, final_message, warnings, progress_bar, edt_ran,
                    background, last_sync, edits, images_dir, roi_files, editor,
                    stage_args >>

\* Files the user may pick in the chooser of import_images_action.
ImportFiles == {F_2b_tif, F_a_tif}

\* import_images_action, lines 434-476, with one file picked whose name is
\* not in the images directory and whose copy succeeds: the entry is
\* appended to Project.images as Untracked. (A name that is there, or a
\* copy that fails, changes nothing.)
ImportImagesAction ==
    /\ has_project
    /\ "images" \in exists
    /\ \E f \in ImportFiles \ images_dir :
         /\ images_dir' = images_dir \cup {f}
         /\ project' = Append(project, ProjectImage(f, "Untracked", <<>>))
    /\ status_label' = "Successfully imported 1 new images."
    /\ unsaved_changes' = TRUE
    /\ UNCHANGED << batch, roi_db, image_status_db, last_sync, edits, has_project,
                    exists, roi_files, path_errors, editor, stage_args >>

\* ------------------------------------------------------------ the ROI editor

\* Names and bregma values typed into the two text fields of the editor.
EditorNames == {R_r, R_s}
EditorBregmas == {"0.5"}

\* The index of the first element of the sequence s that equals x, 0 if none
\* (the break of a for loop over the list, DefaultListModel.indexOf).
IndexOf(s, x) ==
    LET at == {k \in 1..Len(s) : s[k] = x}
    IN  IF at = {} THEN 0 ELSE CHOOSE k \in at : \A j \in at : k <= j

\* The sequence s without its element at index i.
RemoveAt(s, i) == SubSeq(s, 1, i - 1) \o SubSeq(s, i + 1, Len(s))

\* The names of a ROI list.
RoiNames(rois) == [k \in 1..Len(rois) |-> rois[k].roi_name]

\* refresh_project_and_ui, lines 550-556: load_project on the directory of
\* the open project, whose tables hold roi_table and status_table. Without a
\* project nothing is reloaded and images stays.
RefreshProjectAndUi(images, roi_table, status_table) ==
    \E v \in VerifyAndCreateDirs(exists) :
      /\ exists' = v.exists
      /\ path_errors' = path_errors \cup v.errors
      /\ roi_db' = TableAfter("roi_db", RoiDbHeaders, roi_table, exists, v.exists)
      /\ image_status_db' = TableAfter("image_status_db", StatusDbHeaders,
                                       status_table, exists, v.exists)
      /\ results_db' = TableAfter("results_db", InitHeaders, results_db,
                                  exists, v.exists)
      /\ IF v.raised
         THEN /\ status_label' = "Error Loading Project. See Log for details"
              /\ project' = images
              /\ UNCHANGED << has_project, unsaved_changes >>
         ELSE /\ project' = LoadedImages(image_status_db', roi_db', exists',
                                         images_dir, roi_files')
              /\ has_project' = TRUE
              /\ status_label' = "Sucessfully loaded project"
              /\ unsaved_changes' = FALSE

\* What the worker, the dialogs and the save of the main window hold; no
\* editor handler changes any of it.
beside_editor ==
    << scheduled, images_to_process, pc, future, retval, img_idx, roi_idx,
       total_rois, roi_counter, all_results, temp_cropped_path, temp_dir, cache,
       calls, result_imp, overlay, opened, exported, started, log, posted,
       done_ran, final_message, warnings, progress_bar, edt_ran, background,
       last_sync, images_dir, stage_args >>

\* open_roi_editor_action, lines 409-415, and ROIEditor.__init__, lines
\* 560-590, on an image that opens: the RoiManager is reset and, if the
\* image has an archive, filled from it; the list shows the manager. An
\* editor is opened only while the budget of edits lasts.
OpenRoiEditorAction ==
    /\ has_project
    /\ editor.image = 0
    /\ edits < MaxEdits
    /\ \E i \in 1..Len(project) :
         LET roi_path == RoiPath(project[i].filename)
             rm == IF roi_path \in DOMAIN roi_files THEN roi_files[roi_path] ELSE <<>>
         IN  editor' = Editor(i, rm, rm, 0)
    /\ edits' = edits + 1
    /\ UNCHANGED << project, batch, disk, stage_args, roi_db, image_status_db, unsaved_changes,
                    status_label, last_sync >>

\* The user selects a ROI of the list; _on_roi_select, lines 667-681,
\* selects it in the RoiManager and fills the text fields.
OnRoiSelect ==
    /\ editor.image # 0
    /\ \E k \in 1..Len(editor.roi_list_model) :
         /\ k # editor.selected
         /\ editor' = [editor EXCEPT !.selected = k]
    /\ UNCHANGED << project, batch, store, disk, stage_args >>

\* _is_name_unique, lines 713-721, as _create_new_roi calls it (no index is
\* ignored): no ROI of the RoiManager has the name.
IsNameUnique(rm, name_to_check) ==
    \A i \in 1..Len(rm) : rm[i] # name_to_check

\* image_obj.add_roi(roi) on the image of the name, in a list of
\* images: rois.append on the list object of that image.
AddRoi(images, filename, roi) ==
    [k \in 1..Len(images) |->
        IF images[k].filename = filename
        THEN [images[k] EXCEPT !.rois = Append(@, roi)]
        ELSE images[k]]

\* _create_new_roi, lines 683-711, with a selection on the image and a name
\* in the field that no ROI of the manager has (else the handler shows an
\* error and returns). The ProjectImage of the editor is the object a worker
\* holds in settings['images'] when the image was selected for its batch (no
\* project is loaded while a worker runs), so the worker sees the ROI too.
CreateNewRoi ==
    /\ editor.image # 0
    /\ edits < MaxEdits
    /\ \E new_name \in EditorNames, new_bregma \in EditorBregmas :
         LET filename == project[editor.image].filename
             new_roi == [roi_name |-> new_name, bregma |-> new_bregma,
                         status |-> "Defined"]
         IN  /\ IsNameUnique(editor.rm, new_name)
             /\ project' = AddRoi(project, filename, new_roi)
             /\ images_to_process' = AddRoi(images_to_process, filename, new_roi)
             /\ calls' = [p \in (DOMAIN calls) \cup {<<filename, new_name>>} |->
                            IF p \in DOMAIN calls THEN calls[p]
                            ELSE Stats(0, 0, 0, 0)]
             /\ editor' = [editor EXCEPT
                              !.rm = Append(@, new_name),
                              !.roi_list_model = Append(@, new_name),
                              !.selected = IndexOf(Append(editor.roi_list_model, new_name),
                                                   new_name)]
    /\ edits' = edits + 1
    /\ UNCHANGED << scheduled, pc, future, retval, img_idx, roi_idx, total_rois,
                    roi_counter, all_results, temp_cropped_path, temp_dir, cache,
                    result_imp, overlay, opened, exported, started, log, posted,
                    results_db, done_ran, final_message, warnings, progress_bar,
                    edt_ran, background >>
    /\ UNCHANGED << disk, stage_args, roi_db, image_status_db, unsaved_changes, status_label,
                    last_sync >>

\* The name the RoiManager gives the selected ROI on "Rename": the name
\* asked for, or, when another ROI of the manager has it, possibly a name
\* the manager makes unique by a suffix.
RenameOutcomes(rm, index, name2) ==
    {name2} \cup
    IF \E k \in 1..Len(rm) : k # index /\ rm[k] = name2
    THEN {name2 \o <<"-", "1">>}
    ELSE {}

\* _update_selected_roi, lines 723-758, with a ROI selected: the manager
\* renames its ROI, the first roi_data with the name shown in the list gets
\* the name and bregma of the fields (a new roi_data is added when there is
\* none), and the list shows the new name.
UpdateSelectedRoi ==
    /\ editor.image # 0
    /\ editor.selected # 0
    /\ edits < MaxEdits
    /\ \E new_name \in EditorNames, new_bregma \in EditorBregmas :
         LET rois == project[editor.image].rois
             original_name == editor.roi_list_model[editor.selected]
             found == IndexOf(RoiNames(rois), original_name)
         IN  /\ \E name2 \in RenameOutcomes(editor.rm, editor.selected, new_name) :
                  editor' = [editor EXCEPT
                               !.rm[editor.selected] = name2,
                               !.roi_list_model[editor.selected] = new_name]
             /\ project' = [project EXCEPT ![editor.image].rois =
                              IF found # 0
                              THEN [rois EXCEPT ![found] =
                                      [roi_name |-> new_name, bregma |-> new_bregma,
                                       status |-> "Modified"]]
                              ELSE Append(rois, [roi_name |-> new_name,
                                                 bregma |-> new_bregma,
                                                 status |-> "Defined"])]
    /\ edits' = edits + 1
    /\ UNCHANGED << batch, disk, stage_args, roi_db, image_status_db, unsaved_changes,
                    status_label, last_sync >>

\* _delete_selected_roi, lines 760-781, with a ROI selected: the manager
\* deletes its ROI, every roi_data with the name shown in the list is
\* dropped, and the row leaves the list.
DeleteSelectedRoi ==
    /\ editor.image # 0
    /\ editor.selected # 0
    /\ edits < MaxEdits
    /\ LET roi_name_to_delete == editor.roi_list_model[editor.selected]
       IN  project' = [project EXCEPT ![editor.image].rois =
                         SelectSeq(@, LAMBDA roi : roi.roi_name # roi_name_to_delete)]
    /\ editor' = [editor EXCEPT
                    !.rm = RemoveAt(@, editor.selected),
                    !.roi_list_model = RemoveAt(@, editor.selected),
                    !.selected = 0]
    /\ edits' = edits + 1
    /\ UNCHANGED << batch, disk, stage_args, roi_db, image_status_db, unsaved_changes,
                    status_label, last_sync >>

\* windowClosing, lines 844-846: cleanup closes the image and the frame.
WindowClosing ==
    /\ editor.image # 0
    /\ editor' = NoEditor
    /\ UNCHANGED << project, batch, store, disk, stage_args >>

\* _finalize_image, lines 783-794: the status of the image becomes
\* Finalized and the status table is written; when the write fails the
\* handler returns, else the project is loaded again from its directory and
\* the editor closes.
FinalizeImage ==
    /\ editor.image # 0
    /\ LET images == [project EXCEPT ![editor.image].status = "Finalized"]
       IN  \E t \in SyncImageStatusDb(images, image_status_db) :
             IF t.ok
             THEN /\ roi_files' = roi_files
                  /\ RefreshProjectAndUi(images, roi_db, t.file)
                  /\ editor' = NoEditor
             ELSE /\ project' = images
                  /\ image_status_db' = t.file
                  /\ UNCHANGED << roi_db, results_db, unsaved_changes, status_label,
                                  has_project, exists, roi_files, path_errors,
                                  editor >>
    /\ UNCHANGED << beside_editor, edits >>

\* existing_roi_data_map[roi_name] of _save_and_close, lines 806-808: the
\* last roi_data of the list with the name.
ExistingRoiData(rois, roi_name) ==
    rois[CHOOSE k \in 1..Len(rois) :
            /\ rois[k].roi_name = roi_name
            /\ \A j \in (k + 1)..Len(rois) : rois[j].roi_name # roi_name]

\* new_rois_list of _save_and_close, lines 811-828: one roi_data per ROI of
\* the manager, the existing one of that name or else default values.
NewRoisList(rois, rm) ==
    [k \in 1..Len(rm) |->
        IF \E j \in 1..Len(rois) : rois[j].roi_name = rm[k]
        THEN ExistingRoiData(rois, rm[k])
        ELSE [roi_name |-> rm[k], bregma |-> "0.00", status |-> "Defined"]]

\* rm.runCommand("Save", roi_path), line 833: the RoiManager writes its ROIs
\* to the archive; it writes nothing when it has no ROI, or when the write
\* fails.
SaveRois(archives, roi_path, rm) ==
    {archives} \cup
    IF rm = <<>> THEN {}
    ELSE {[a \in (DOMAIN archives) \cup {roi_path} |->
              IF a = roi_path THEN rm ELSE archives[a]]}

\* _save_and_close, lines 797-837: the ROI list of the image is rebuilt from
\* the RoiManager, the archive and the ROI table are written (the value
\* _sync_roi_db returns is not read), the project is loaded again from its
\* directory and the editor closes.
SaveAndClose ==
    /\ editor.image # 0
    /\ LET image == project[editor.image]
           images == [project EXCEPT ![editor.image].rois =
                         NewRoisList(image.rois, editor.rm)]
       IN  /\ roi_files' \in SaveRois(roi_files, RoiPath(image.filename), editor.rm)
           /\ \E r \in SyncRoiDb(images, roi_db) :
                RefreshProjectAndUi(images, r.file, image_status_db)
    /\ editor' = NoEditor
    /\ UNCHANGED << beside_editor, edits >>

\* The editor of one image is opened, used and closed while the project is
\* also edited in the ROI details table and saved.
NextEditor ==
    \/ OpenRoiEditorAction
    \/ OnRoiSelect
    \/ CreateNewRoi
    \/ UpdateSelectedRoi
    \/ DeleteSelectedRoi
    \/ FinalizeImage
    \/ SaveAndClose
    \/ WindowClosing
    \/ SetValueAt
    \/ SaveProjectAction

SpecEditor == Init /\ [][NextEditor]_vars

\* ------------------------------------------------------- specifications

Next ==
    \/ StartBatch
    \/ Begin
    \/ ImageStep
    \/ RoiStep
    \/ RoiCrop
    \/ RoiClassify
    \/ RoiAnalyze
    \/ RoiFinally
    \/ Export
    \/ Done
    \/ Cancel

\* One batch at a time.
Spec == Init /\ [][Next]_vars

\* The project of 1_a.tif (one ROI) and foo.tif (none) is open.
InitBatchEdit == Init /\ project[2].filename = F_foo_tif

\* Versions of the content of a classifier file and of a cropped image.
Versions == {"1", "2"}

\* Between two batches a classifier file of the models directory is
\* replaced, or the ROI of the archive is drawn again, so that the stages of
\* the next batch are given something else than those of the last.
ReplaceStageArgs ==
    /\ WorkerStopped
    /\ done_ran
    /\ edits < MaxEdits
    /\ edits' = edits + 1
    /\ \E p \in Versions, o \in Versions, c \in Versions :
         /\ StageArgs(p, o, c) # stage_args
         /\ stage_args' = StageArgs(p, o, c)
    /\ UNCHANGED << project, scheduled, images_to_process, pc, future, retval, img_idx,
                    roi_idx, total_rois, roi_counter, all_results, temp_cropped_path,
                    temp_dir, cache, calls, result_imp, overlay, opened, exported,
                    started, log, posted, results_db, done_ran, final_message,
                    warnings, progress_bar, edt_ran, background, roi_db,
                    image_status_db, unsaved_changes, status_label, last_sync,
                    has_project, exists, images_dir, roi_files, path_errors, editor >>

\* Batches run one after the other, with the classifiers or the ROIs
\* changed between them.
NextReclassify ==
    \/ StartBatch
    \/ Begin
    \/ ImageStep
    \/ RoiStep
    \/ RoiCrop
    \/ RoiClassify
    \/ RoiAnalyze
    \/ RoiFinally
    \/ Export
    \/ Done
    \/ ReplaceStageArgs

\* A batch runs to its end while an editor is open, or is opened, on one of
\* the images of the project and ROIs are created in it.
NextBatchEdit ==
    \/ StartBatch
    \/ Begin
    \/ ImageStep
    \/ RoiStep
    \/ RoiCrop
    \/ RoiClassify
    \/ RoiAnalyze
    \/ RoiFinally
    \/ Export
    \/ Done
    \/ OpenRoiEditorAction
    \/ CreateNewRoi

\* The project of the one image 1_a.tif with its one ROI is open.
InitReclassify ==
    /\ project = << ProjectImage(F_1a_tif, "Finalized", <<RoiData(R_r, "-1.2")>>) >>
    /\ Idle
    /\ calls = [p \in Pairs(project) |-> Stats(0, 0, 0, 0)]
    /\ results_db \in ResultsTables
    /\ roi_db = RoiDbContent(project)
    /\ image_status_db = StatusDbContent(project)
    /\ has_project = TRUE
    /\ exists = PathKeys
    /\ images_dir = {project[i].filename : i \in 1..Len(project)}
    /\ roi_files = ArchivesOf(project)

SpecReclassify == InitReclassify /\ [][NextReclassify]_vars

SpecBatchEdit == InitBatchEdit /\ [][NextBatchEdit]_vars

\* One batch at a time, with the control thread running the progress tasks.
NextProgress ==
    \/ Next
    \/ UpdateProgressBar

\* The project of 1_a.tif (two ROIs) and 2_b.tif (one ROI) is open.
InitProgress == Init /\ project[1].filename = F_1a_tif /\ Len(project[1].rois) = 2

SpecProgress == InitProgress /\ [][NextProgress]_vars

\* A second batch may be started while the first is running.
NextGui ==
    \/ StartBatch
    \/ StartSecondBatch
    \/ Switch
    \/ Begin
    \/ ImageStep
    \/ RoiStep
    \/ RoiCrop
    \/ RoiClassify
    \/ RoiAnalyze
    \/ RoiFinally
    \/ Export
    \/ Done

\* The project of a.jpg and a.tif is open.
InitGui == Init /\ project[1].filename = F_a_jpg

SpecGui == InitGui /\ [][NextGui]_vars

\* The project is edited in the ROI details table and saved.
NextStore ==
    \/ SetValueAt
    \/ SaveProjectAction

SpecStore == Init /\ [][NextStore]_vars

\* A project is open; it is edited, saved, extended by imports and opened
\* again.
NextSession ==
    \/ LoadProject
    \/ ImportImagesAction
    \/ SetValueAt
    \/ SaveProjectAction

SpecSession == Init /\ [][NextSession]_vars

\* No project is open yet.
NoProject ==
    /\ project = <<>>
    /\ has_project = FALSE
    /\ Idle
    /\ calls = <<>>

\* A table of a project directory: its header and up to n rows.
TablesOf(headers, rows, n) ==
    { <<HeaderRow(headers)>> \o [k \in 1..Len(t) |-> DataRow(t[k])] :
        t \in UNION { [1..k -> rows] : k \in 0..n } }

\* Filenames of the rows of the tables and of the files of the images
\* directory before a project is opened.
TableNames == { <<"1", "0", "_", "a", ".", "t", "i", "f">>, F_2b_tif, F_a_jpg, F_a_tif }
DirNames == TableNames \cup { <<"a", "j", "p", "g">> }

StatusRows == { [filename |-> f, status |-> s] : f \in TableNames, s \in {"Finalized", "New"} }
RoiTableRows ==
    { [filename |-> f, roi_name |-> n, bregma |-> "0.5", status |-> "Defined"] :
        f \in TableNames, n \in {R_r, R_s} }

\* ROI archives: of some images, all holding the ROIs s and r in that order.
ArchivesUpTo(n) ==
    { [a \in paths |-> <<R_s, R_r>>] :
        paths \in {p \in SUBSET {RoiPath(f) : f \in TableNames} : Cardinality(p) <= n} }

\* A project directory with every path and at most MaxItems table rows,
\* image files and archives is about to be opened.
InitOpen ==
    /\ NoProject
    /\ exists = PathKeys
    /\ results_db \in ResultsTables
    /\ image_status_db \in TablesOf(StatusDbHeaders, StatusRows, MaxItems)
    /\ roi_db \in TablesOf(RoiDbHeaders, RoiTableRows, MaxItems + 1 - Len(image_status_db))
    /\ images_dir \in {d \in SUBSET DirNames :
                         Cardinality(d) <= MaxItems + 2 - Len(image_status_db) - Len(roi_db)}
    /\ roi_files \in ArchivesUpTo(MaxItems + 2 - Len(image_status_db) - Len(roi_db)
                                  - Cardinality(images_dir))

SpecOpen == InitOpen /\ [][LoadProject]_vars

\* The directory is opened, images are imported into the open project, and
\* the directory may be opened again.
NextImport ==
    \/ LoadProject
    \/ ImportImagesAction

SpecImport == InitOpen /\ [][NextImport]_vars

\* A directory in which any of the paths may be missing is about to be
\* opened: the status table, if it exists, holds its header and at most one
\* row, the ROI table its header and one row, the images directory at most
\* one file.
InitPaths ==
    /\ NoProject
    /\ exists \in SUBSET PathKeys
    /\ results_db = IF "results_db" \in exists THEN <<HeaderRow(InitHeaders)>> ELSE <<>>
    /\ image_status_db \in IF "image_status_db" \in exists
                           THEN TablesOf(StatusDbHeaders, {[filename |-> F_a_tif, status |-> "Finalized"]}, 1)
                           ELSE {<<>>}
    /\ roi_db = IF "roi_db" \in exists
                THEN <<HeaderRow(RoiDbHeaders),
                       DataRow([filename |-> F_a_tif, roi_name |-> R_r,
                                bregma |-> "0.5", status |-> "Defined"])>>
                ELSE <<>>
    /\ images_dir \in IF "images" \in exists THEN {{}, {F_2b_tif}} ELSE {{}}
    /\ roi_files = <<>>

SpecPaths == InitPaths /\ [][LoadProject]_vars

\* ------------------------------------------------------------ properties

\* (image filename, ROI name) of a result record or of a log line
PairOf(r) == <<r.filename, r.roi_name>>

PairsOf(seq) == {PairOf(seq[k]) : k \in 1..Len(seq)}

\* The batch ran to its normal end.
CompletedNormally == future = "returned" /\ retval.text = "Batch processing complete."

\* ROIs whose processing has ended with a record or with a logged error.
Settled == Len(all_results) + Len(log)

\* The data rows of the table, in order.
DataRows(db) == SelectSeq(db, LAMBDA row : row.kind = "data")

\* The sequence s ends with the sequence t.
EndsWith(s, t) ==
    /\ Len(s) >= Len(t)
    /\ SubSeq(s, Len(s) - Len(t) + 1, Len(s)) = t

\* C1: an error in one ROI aborts only that ROI: it is logged with image and
\* ROI name, it gets no result record, and the loop goes on. A batch that
\* completes normally has started every one of its R ROIs, holds one record
\* per ROI that did not fail (R-1 when exactly one failed) and has posted 100
\* as its last progress value.
C1_RoiErrorIsolated ==
    /\ PairsOf(log) \cap PairsOf(all_results) = {}
    /\ PairsOf(log) \cup PairsOf(all_results) \subseteq {started[k] : k \in 1..Len(started)}
    /\ pc \in {"roi", "crop", "classify", "analyze", "export", "image"}
          => Settled = roi_counter
    /\ pc = "finally" => Settled = roi_counter + 1
    /\ CompletedNormally =>
          /\ Len(started) = total_rois
          /\ roi_counter = total_rois
          /\ Settled = total_rois
          /\ Len(log) = 1 => Len(all_results) = total_rois - 1
          /\ posted[Len(posted)] = 100
          /\ done_ran => /\ final_message.title = "Status"
                         /\ EndsWith(DataRows(results_db), Rows(all_results))

\* A batch of three ROIs completed normally after its middle ROI failed.
C1_Witness ==
    /\ CompletedNormally
    /\ done_ran
    /\ total_rois = 3
    /\ Len(all_results) = 2
    /\ log = <<[roi_name |-> R_s, filename |-> F_1a_tif]>>
    /\ posted = <<33, 66, 100>>

\* done() runs in this step.
DoneStep == ~done_ran /\ done_ran'

\* cancel() is called in this step.
CancelStep == future = "new" /\ future' = "cancelled"

C3_NoStartAfterCancel ==
    [][ /\ (Len(started') > Len(started) \/ Len(opened') > Len(opened)) => future = "new"
        /\ CancelStep => /\ pc' = pc
                         /\ UNCHANGED << img_idx, roi_idx, roi_counter, all_results,
                                         temp_cropped_path, temp_dir, cache, started,
                                         opened, exported, log, posted >>
        /\ (IsCancelled /\ pc = "crop") => pc' \in {"crop", "classify", "finally"}
        /\ (IsCancelled /\ pc = "classify") => pc' \in {"classify", "analyze", "finally"}
        /\ (IsCancelled /\ pc = "analyze") => pc' \in {"analyze", "finally"}
        /\ (IsCancelled /\ pc = "finally") =>
              \/ pc' = "finally"
              \/ pc' = "roi" /\ roi_counter' = roi_counter + 1
        /\ (IsCancelled /\ pc = "roi") => pc' \in {"roi", "export"}
        /\ (IsCancelled /\ pc = "image") => pc' \in {"image", "finished"}
      ]_vars

\* The flag was set while the first of three ROIs was in progress (done()
\* saved nothing): that ROI ran to its end and collected its record, the two
\* other ROIs were not started and the second image was not opened.
C3_Witness ==
    /\ future = "cancelled"
    /\ pc = "finished"
    /\ scheduled = 3
    /\ total_rois = 3
    /\ Len(started) = 1
    /\ roi_counter = 1
    /\ Len(all_results) = 1
    /\ DataRows(results_db) = <<>>
    /\ Len(opened) = 1
    /\ Len(images_to_process) = 2

\* C4: when an image fails to open the batch fails as a whole: the worker
\* stops, only the images before it were opened and exported, no ROI of it
\* or of a later image was started, and done() shows the error dialog.
C4_OpenFailureAborts ==
    future = "raised" =>
        /\ pc = "finished"
        /\ opened = [k \in 1..(img_idx - 1) |-> images_to_process[k].filename]
        /\ Len(exported) = img_idx - 1
        /\ \A k \in 1..Len(started) :
              \E m \in 1..(img_idx - 1) : started[k][1] = images_to_process[m].filename
        /\ done_ran => final_message.title = "Error"

\* The first of two selected images failed to open.
C4_Witness ==
    /\ future = "raised"
    /\ done_ran
    /\ img_idx = 1
    /\ Len(images_to_process) = 2
    /\ started = <<>>
    /\ opened = <<>>
    /\ exported = <<>>
    /\ final_message.title = "Error"

\* C5: when the batch failed on an image that does not open, the records of
\* the images completed before it (one per ROI of theirs that did not fail)
\* are the last rows of the results table once done() has run.
C5_FailedKeepsResults ==
    (future = "raised" /\ done_ran) =>
        LET n == Len(all_results)
            m == Len(results_db)
        IN  /\ n + Len(log) = TotalRois(SubSeq(images_to_process, 1, img_idx - 1))
            /\ m >= n + 1
            /\ \A k \in 1..n : /\ results_db[m - n + k].kind = "data"
                               /\ results_db[m - n + k].cells = all_results[k]

\* The second image failed to open after both ROIs of the first had been
\* measured: their two rows are in the table.
C5_Witness ==
    /\ future = "raised"
    /\ done_ran
    /\ img_idx = 2
    /\ Len(all_results) = 2
    /\ Len(results_db) = 3
    /\ results_db[3].cells.roi_name = R_s

\* The table is one header row followed by data rows only.
HeaderOnce(db) ==
    /\ Len(db) >= 1
    /\ db[1].kind = "header"
    /\ db[1].cells = InitHeaders
    /\ \A k \in 2..Len(db) : db[k].kind = "data"

CurrentPair == <<image_obj.filename, roi_data.roi_name>>
CurrentBase == BaseName(image_obj.filename, roi_data.roi_name)

\* pixel_prob_path and object_prob_path of an (image, ROI)
PixelOf(p) == PixelProbPath(BaseName(p[1], p[2]))
ObjectOf(p) == ObjectProbPath(BaseName(p[1], p[2]))

\* The statement of C7 as claimed: over the first two resolves of an
\* (image, ROI) each stage is invoked at most once.
C7_AtMostOncePerStage ==
    \A p \in DOMAIN calls :
        calls[p].resolves <= 2 => calls[p].pixel <= 1 /\ calls[p].object <= 1

\* C7, amended: a resolve invokes no stage when the object-tier artifact
\* exists, only the object stage when only the pixel-tier artifact exists,
\* and the pixel stage only when neither exists; over two successive resolves
\* of an (image, ROI) from an empty cache, the first of which succeeds, each
\* stage is invoked at most once (a stage that gave no output in the first
\* resolve is invoked again by the second).
C7_NoStageOnCachedArtifact ==
    [][ \A p \in DOMAIN calls :
          /\ calls'[p].pixel > calls[p].pixel =>
                /\ ~Exists(cache, PixelOf(p))
                /\ ~Exists(cache, ObjectOf(p))
          /\ calls'[p].object > calls[p].object => ~Exists(cache, ObjectOf(p))
          /\ (calls'[p].resolves > calls[p].resolves /\ Exists(cache, PixelOf(p))
                /\ ~Exists(cache, ObjectOf(p))) =>
                /\ calls'[p].pixel = calls[p].pixel
                /\ calls'[p].object = calls[p].object + 1
          /\ (calls'[p].resolves <= 2 /\ calls'[p].ok = calls'[p].resolves) =>
                /\ calls'[p].pixel <= 1
                /\ calls'[p].object <= 1
      ]_vars

\* Two resolves of one (image, ROI), both successful, the first on the cold
\* path: one call of each stage.
C7_Witness ==
    \E p \in DOMAIN calls :
        /\ calls[p].resolves = 2
        /\ calls[p].ok = 2
        /\ calls[p].pixel = 1
        /\ calls[p].object = 1

\* C8: after a successful resolve, whichever path it took, the pixel-tier and
\* the object-tier artifact of the base name are both on disk, each the
\* output of its stage, and the image returned is the object-tier artifact.
C8_BothTiersAfterResolve ==
    pc = "analyze" =>
        /\ Exists(cache, PixelProbPath(CurrentBase))
        /\ Exists(cache, ObjectProbPath(CurrentBase))
        /\ cache[PixelProbPath(CurrentBase)].stage = "pixel"
        /\ cache[ObjectProbPath(CurrentBase)].stage = "object"
        /\ result_imp = cache[ObjectProbPath(CurrentBase)]

\* A resolve has returned on the fully cached path: it is the second resolve
\* of its (image, ROI) and invoked no stage.
C8_Witness ==
    /\ pc = "analyze"
    /\ calls[CurrentPair] = Stats(2, 2, 1, 1)
    /\ Exists(cache, PixelProbPath(CurrentBase))
    /\ Exists(cache, ObjectProbPath(CurrentBase))

\* _run_ilastik_classification raises in this step.
ClassifyRaises == pc = "classify" /\ pc' = "finally"

\* C9: when a stage gives no output the resolve fails for this ROI only: the
\* failed stage leaves no artifact, the pixel artifact written earlier in the
\* same resolve and every artifact already cached stay, the error is logged,
\* no record is added for the ROI up to the end of its finally block, the
\* future is not completed and the worker goes on to the next ROI.
C9_StageFailureIsolated ==
    [][ /\ ClassifyRaises =>
              /\ ~Exists(cache', ObjectProbPath(CurrentBase))
              /\ calls'[CurrentPair].object = calls[CurrentPair].object =>
                    ~Exists(cache', PixelProbPath(CurrentBase))
              /\ (calls'[CurrentPair].pixel > calls[CurrentPair].pixel
                    /\ calls'[CurrentPair].object > calls[CurrentPair].object) =>
                    /\ Exists(cache', PixelProbPath(CurrentBase))
                    /\ cache'[PixelProbPath(CurrentBase)].stage = "pixel"
              /\ \A q \in DOMAIN cache : Exists(cache', q) /\ cache'[q] = cache[q]
              /\ all_results' = all_results
              /\ log' = Append(log, [roi_name |-> roi_data.roi_name,
                                     filename |-> image_obj.filename])
              /\ future' = future
        /\ (pc = "finally" /\ pc' # "finally") =>
              /\ pc' = "roi"
              /\ roi_idx' = roi_idx + 1
              /\ img_idx' = img_idx
              /\ all_results' = all_results
      ]_vars

\* The object stage gave no output for the first ROI of a batch: its pixel
\* artifact is cached, its object artifact is not, it has no record, and the
\* worker is processing the second ROI.
C9_Witness ==
    /\ pc = "crop"
    /\ roi_idx = 2
    /\ total_rois = 3
    /\ scheduled = 3
    /\ all_results = <<>>
    /\ log = <<[roi_name |-> R_r, filename |-> F_1a_tif]>>
    /\ calls[<<F_1a_tif, R_r>>] = Stats(1, 0, 1, 1)
    /\ Exists(cache, PixelProbPath(BaseName(F_1a_tif, R_r)))
    /\ ~Exists(cache, ObjectProbPath(BaseName(F_1a_tif, R_r)))

\* C10: artifacts are keyed by the (image, ROI) pair: no two distinct pairs
\* started by a batch share a pixel-tier or object-tier path, and the image a
\* ROI gets from the cache was computed for that image and that ROI.
C10_KeyedByPair ==
    /\ \A i, j \in 1..Len(started) :
          started[i] # started[j] =>
             /\ PixelOf(started[i]) # PixelOf(started[j])
             /\ ObjectOf(started[i]) # ObjectOf(started[j])
    /\ pc = "analyze" => result_imp.src = <<image_obj.filename, roi_data.roi_name>>

\* The worker is between two ROIs, between two images, or has returned.
AtBoundary(p) == p \in {"roi", "export", "image", "finished"}

\* The statement of C11 as claimed: at every ROI boundary and once the batch
\* has ended the temp directory holds no temporary file.
C11_TempDeletedOnEveryPath ==
    AtBoundary(pc) => temp_dir = {}

\* C11, amended: every exit path of a ROI's processing goes through the
\* finally block, which removes the ROI's temporary file if it was written;
\* the file is gone afterwards unless os.remove raised, and then a warning is
\* logged for it and the batch goes on. At every ROI boundary and when the
\* batch ends the temp directory holds only files whose removal raised, so
\* it is empty when no removal raised. Only the crop and the finally block
\* write the temp directory.
C11_TempDeletedUnlessRemoveRaised ==
    [][ /\ (pc = "finally" /\ pc' # "finally") =>
              /\ pc' = "roi"
              /\ \/ temp_cropped_path \notin temp_dir'
                 \/ /\ temp_cropped_path \in temp_dir
                    /\ temp_dir' = temp_dir
                    /\ warnings' = warnings \cup {temp_cropped_path}
        /\ AtBoundary(pc') => temp_dir' \subseteq warnings'
        /\ (AtBoundary(pc') /\ warnings' = {}) => temp_dir' = {}
        /\ temp_dir' # temp_dir => pc \in {"crop", "finally"}
      ]_vars

\* The first ROI of a batch failed in classification, after its crop had been
\* written: at the boundary to the second ROI the temp directory is empty.
C11_Witness ==
    /\ pc = "roi"
    /\ roi_idx = 2
    /\ roi_counter = 1
    /\ Len(log) = 1
    /\ calls[started[1]].resolves = 1
    /\ calls[started[1]].ok = 0
    /\ warnings = {}
    /\ temp_dir = {}

\* State of a worker in the state machine of the batch.
PhaseOf(w) ==
    CASE w.future = "returned"  -> "Completed"
      [] w.future = "raised"    -> "Failed"
      [] w.future = "cancelled" -> "Cancelled"
      [] w.pc = "none"          -> "None"
      [] w.pc = "pending"       -> "Pending"
      [] OTHER                  -> "Running"

Phase == PhaseOf(Worker)

Terminal == {"Completed", "Cancelled", "Failed"}

\* A new worker is created and executed in this step.
ExecuteStep == future # "new" /\ future' = "new"

\* C12: a worker enters Running only from Pending, it never leaves the
\* terminal state it has reached, and its completion handler runs once, in
\* a terminal state and after the background work has stopped collecting
\* results: no record is collected once done() has run.
C12_Lifecycle ==
    [][ ~ExecuteStep =>
          /\ (Phase' = "Running" /\ Phase # "Running") => Phase = "Pending"
          /\ Phase \in Terminal => Phase' = Phase
          /\ done_ran => done_ran'
          /\ DoneStep => Phase' \in Terminal
          /\ done_ran => all_results' = all_results
      ]_vars

\* The worker thread is inside the processing of a ROI.
InRoi(p) == p \in {"crop", "classify", "analyze", "finally"}

\* C13: at most one batch runs at a time: no two workers are Running at
\* once, so two workers never process ROIs at the same time and never hold
\* the same temporary file.
C13_OneBatchAtATime ==
    /\ ~(Phase = "Running" /\ PhaseOf(background) = "Running")
    /\ ~(InRoi(pc) /\ InRoi(background.pc))
    /\ temp_cropped_path # NoPath => background.temp_cropped_path # temp_cropped_path

\* C14: no step of a batch (the start of the worker, the steps of
\* doInBackground, done(), cancellation) changes the project in memory, so
\* filename, status and ROI list of every image are after the batch what they
\* were before it, nor the ROI table or the status table; the results table
\* is written by done() only.
C14_BatchLeavesProject ==
    [][ /\ project' = project
        /\ roi_db' = roi_db
        /\ image_status_db' = image_status_db
        /\ results_db' # results_db => DoneStep
      ]_vars

\* A batch of three ROIs has ended and done() has written its three rows:
\* the two project tables hold what they held before the batch.
C14_Witness ==
    /\ pc = "finished"
    /\ done_ran
    /\ total_rois = 3
    /\ Len(all_results) = 3
    /\ Len(results_db) = 4
    /\ roi_db = RoiDbContent(project)
    /\ image_status_db = StatusDbContent(project)
    /\ \A k \in 1..Len(project) : project[k].status = "Finalized"

\* The control thread runs a progress task in this step.
UpdateStep == edt_ran' = edt_ran + 1 /\ posted' = posted /\ pc' = pc

RECURSIVE VisitingOrder(_)
VisitingOrder(images) ==
    IF images = <<>> THEN <<>>
    ELSE [k \in 1..Len(Head(images).rois) |->
            <<Head(images).filename, Head(images).rois[k].roi_name>>]
         \o VisitingOrder(Tail(images))

\* C16: the images opened so far are the first images of the settings image
\* list, in its order, and the ROIs started so far are the first pairs of the
\* visiting order (images in list order, the ROIs of an image in stored
\* order). The records collected are in that order too: their pairs are the
\* started pairs that have a record, in the order they were started, and
\* between two ROIs these are the started pairs without the failed ones.
C16_VisitingOrder ==
    /\ opened = [k \in 1..Len(opened) |-> images_to_process[k].filename]
    /\ Len(started) <= Len(VisitingOrder(images_to_process))
    /\ started = SubSeq(VisitingOrder(images_to_process), 1, Len(started))
    /\ [k \in 1..Len(all_results) |-> PairOf(all_results[k])]
          = SelectSeq(started, LAMBDA p : p \in PairsOf(all_results))
    /\ AtBoundary(pc) =>
          [k \in 1..Len(all_results) |-> PairOf(all_results[k])]
             = SelectSeq(started, LAMBDA p : p \notin PairsOf(log))

\* A batch over two images has ended: the first ROI of the first image
\* failed, the records are those of its second ROI and of the ROI of the
\* second image, in this order.
C16_Witness ==
    /\ CompletedNormally
    /\ opened = <<F_1a_tif, F_2b_tif>>
    /\ started = << <<F_1a_tif, R_r>>, <<F_1a_tif, R_s>>, <<F_2b_tif, R_r>> >>
    /\ PairsOf(log) = { <<F_1a_tif, R_r>> }
    /\ Len(all_results) = 2
    /\ PairOf(all_results[1]) = <<F_1a_tif, R_s>>
    /\ PairOf(all_results[2]) = <<F_2b_tif, R_r>>

\* The image that was opened last is being processed: its ROI loop has not
\* been left through the export.
ImageOpen(p) == p = "roi" \/ p = "export" \/ InRoi(p)

\* An image is exported in this step.
ExportStep == Len(exported') = Len(exported) + 1

\* Every opened image but the one being processed has been exported, once
\* and in the order of opening, as {stem}_processed.tiff.
ExportedOpened ==
    /\ Len(exported) = (IF ImageOpen(pc) THEN Len(opened) - 1 ELSE Len(opened))
    /\ \A k \in 1..Len(exported) :
         exported[k].path = Stem(opened[k]) \o
            <<"_", "p", "r", "o", "c", "e", "s", "s", "e", "d", ".", "t", "i", "f", "f">>

\* The statement of C17 as claimed: every opened image is exported once,
\* after its last processed ROI, as {stem}_processed.tiff, and the export is
\* flattened exactly if an object outline was recorded for the image in this
\* batch.
C17_FlattenedIffOutlines ==
    /\ [] ExportedOpened
    /\ [][ExportStep =>
            /\ pc = "export"
            /\ started' = started
            /\ exported'[Len(exported')].flattened <=> "outlines" \in overlay]_vars

\* C17: every image that was opened is exported once, after its last
\* processed ROI and also when its remaining ROIs were skipped, as
\* {stem}_processed.tiff; an image that is not reached or fails to open is
\* not exported. The export is flattened exactly if the image has an overlay
\* at that time: outlines recorded in this batch or an overlay stored in the
\* image file.
C17_FlattenedIffOverlay ==
    /\ [] ExportedOpened
    /\ [][ExportStep =>
            /\ pc = "export"
            /\ started' = started
            /\ exported'[Len(exported')].flattened <=> overlay # {}]_vars

\* A batch over two images was cancelled in the first one: its second ROI
\* was skipped, and the image was exported, flattened because of the overlay
\* stored in its file although no outline was recorded; the second image was
\* not exported.
C17_Witness ==
    /\ pc = "finished"
    /\ future = "cancelled"
    /\ Len(images_to_process) = 2
    /\ started = << <<F_1a_tif, R_r>> >>
    /\ Len(all_results) = 1
    /\ overlay = {"stored"}
    /\ Len(exported) = 1
    /\ exported[1].flattened

\* save_project_action calls sync_project_db in this step.
SyncStep == unsaved_changes /\ edits' = edits

\* table is a header and, for every image in list order, one row for each
\* of its ROI records in list order, with the values of the record; nothing
\* else, so an image without ROIs has no row.
IsRoiTableOf(images, table) ==
    /\ Len(table) = 1 + TotalRois(images)
    /\ table[1] = HeaderRow(<<"filename", "roi_name", "bregma", "status">>)
    /\ \A i \in 1..Len(images) :
         /\ \A k \in 1..Len(images[i].rois) :
              table[1 + TotalRois(SubSeq(images, 1, i - 1)) + k] =
                 DataRow([filename |-> images[i].filename,
                          roi_name |-> images[i].rois[k].roi_name,
                          bregma   |-> images[i].rois[k].bregma,
                          status   |-> images[i].rois[k].status])
         /\ images[i].rois = <<>> =>
              \A r \in 2..Len(table) : table[r].cells.filename # images[i].filename

\* table is a header and one row for every image, in list order.
IsStatusTableOf(images, table) ==
    /\ Len(table) = 1 + Len(images)
    /\ table[1] = HeaderRow(<<"filename", "status">>)
    /\ \A i \in 1..Len(images) :
         table[1 + i] = DataRow([filename |-> images[i].filename,
                                 status   |-> images[i].status])

\* C18: a sync that writes the ROI table leaves in it exactly one row per
\* ROI record of the in-memory project, in image order then ROI order and
\* with the current values, and no row for an image without ROIs; a sync
\* that writes the status table leaves in it exactly one row per image,
\* whatever its ROI count.
C18_SyncRewritesTables ==
    [][SyncStep =>
         /\ last_sync'.roi = "written" => IsRoiTableOf(project, roi_db')
         /\ last_sync'.status = "written" => IsStatusTableOf(project, image_status_db')]_vars

\* The project of 1_a.tif with one ROI and foo.tif with none was edited and
\* saved: the ROI table has one row, with the edited bregma, and the status
\* table has two.
C18_Witness ==
    /\ last_sync.returned
    /\ ~unsaved_changes
    /\ edits > 0
    /\ Len(project) = 2
    /\ project[2].filename = F_foo_tif
    /\ project[2].rois = <<>>
    /\ Len(roi_db) = 2
    /\ roi_db[2].cells.filename = F_1a_tif
    /\ roi_db[2].cells.bregma = "0.5"
    /\ Len(image_status_db) = 3

\* C19: sync_project_db returns true exactly if the write of the ROI table
\* and the write of the status table both succeeded, and the status table
\* is written whenever the ROI table was attempted, also after a failure.
C19_SyncReturnsBoth ==
    /\ last_sync.returned <=> (last_sync.roi = "written" /\ last_sync.status = "written")
    /\ last_sync.roi # "none" => last_sync.status \in {"written", "failed"}

\* A save after an edit: the write of the ROI table failed and left the
\* file truncated, the status table was written all the same, and false was
\* returned.
C19_Witness ==
    /\ edits > 0
    /\ last_sync.roi = "failed"
    /\ last_sync.status = "written"
    /\ ~last_sync.returned
    /\ Len(roi_db) < 1 + TotalRois(project)
    /\ IsStatusTableOf(project, image_status_db)
    /\ status_label = "Error saving project. See Log."

\* C20: a sync is all-or-nothing for each table: a write that failed leaves
\* the file with its complete previous content, a write that succeeded
\* leaves exactly the new content, and the file never holds a truncated or
\* partly written table.
C20_SyncAllOrNothing ==
    [][SyncStep =>
         /\ last_sync'.roi = "failed" => roi_db' = roi_db
         /\ last_sync'.roi = "written" => IsRoiTableOf(project, roi_db')
         /\ last_sync'.status = "failed" => image_status_db' = image_status_db
         /\ last_sync'.status = "written" => IsStatusTableOf(project, image_status_db')]_vars

\* A save that writes both tables and reports success.
SaveSucceeds ==
    /\ SaveProjectAction
    /\ last_sync'.returned
    /\ status_label' = "Project saved successfully."
    /\ ~unsaved_changes'

\* C21: a save whose sync fails is reported in the status bar as a failed
\* save, leaves the images, their statuses and their ROI lists as they were
\* and leaves the unsaved-changes flag set; while the flag is set a save
\* can be made again and can succeed.
C21_FailedSaveKeepsModel ==
    /\ [][SyncStep /\ ~last_sync'.returned =>
            /\ project' = project
            /\ unsaved_changes'
            /\ status_label' = "Error saving project. See Log."]_vars
    /\ [](unsaved_changes => ENABLED SaveSucceeds)

\* A save after an edit failed in the write of the status table: the edit is
\* still in memory and not in the status bar's report, the flag is set and
\* the save can be made again.
C21_Witness ==
    /\ edits > 0
    /\ last_sync.roi = "written"
    /\ last_sync.status = "failed"
    /\ unsaved_changes
    /\ status_label = "Error saving project. See Log."
    /\ IsRoiTableOf(project, roi_db)
    /\ ENABLED SaveSucceeds

\* load_project runs in this step right after a save that succeeded.
LoadAfterSave ==
    /\ status_label = "Project saved successfully."
    /\ ~unsaved_changes
    /\ status_label' = "Sucessfully loaded project"

\* The images are in non-decreasing order of their natural keys.
InKeyOrder(images) ==
    \A i, j \in 1..Len(images) :
        i < j => ~KeyLess(NaturalSortKey(images[j].filename),
                          NaturalSortKey(images[i].filename))

\* C22: opening the project directory again after a sync that succeeded
\* gives the model that was synced: the same images in the same order, with
\* the same statuses and the same ROI records in the same order. Stated
\* here for the image lists that are in natural-key order only.
C22_SyncLoadRoundTrip ==
    [][LoadAfterSave /\ project # <<>> /\ InKeyOrder(project) => project' = project]_vars

\* The filenames of the rows of the two tables.
TableFilenames ==
    Filenames(ReadRows(image_status_db)) \cup Filenames(ReadRows(roi_db))

\* The entries of a filename in the image list.
EntriesOf(images, f) == {i \in 1..Len(images) : images[i].filename = f}

\* C23: the loaded project has exactly one entry for each filename of the
\* status table or the ROI table, with the status of the status table when
\* the filename is there and, when it has rows in the ROI table, these rows
\* as its ROI records in row order; and exactly one entry, Untracked, for
\* each file of the images directory that has an image extension and is in
\* neither table; and no other entry.
C23_LoadedEntries ==
    has_project =>
        /\ \A f \in TableFilenames :
             /\ Cardinality(EntriesOf(project, f)) = 1
             /\ \A i \in EntriesOf(project, f) :
                  /\ f \in Filenames(ReadRows(image_status_db)) =>
                        project[i].status = StatusOf(ReadRows(image_status_db), f)
                  /\ f \in Filenames(ReadRows(roi_db)) =>
                        project[i].rois = RoisOf(ReadRows(roi_db), f)
        /\ \A f \in {g \in images_dir : RecognizedExtension(g)} \ TableFilenames :
             /\ Cardinality(EntriesOf(project, f)) = 1
             /\ \A i \in EntriesOf(project, f) : project[i].status = "Untracked"
        /\ \A i \in 1..Len(project) :
             \/ project[i].filename \in TableFilenames
             \/ project[i].filename \in images_dir /\ RecognizedExtension(project[i].filename)

\* The ROI records read from an archive: its names in archive order, with
\* bregma "N/A" and status From File.
FromArchive(names) ==
    [k \in 1..Len(names) |-> [roi_name |-> names[k], bregma |-> "N/A", status |-> "From File"]]

\* C24: after a load, an entry with rows in the ROI table has exactly these
\* rows as ROI records, whatever its archive holds; an entry without rows
\* has the records of its archive, in archive order with bregma "N/A" and
\* status From File, if the archive exists, and no ROI record if not. This
\* holds for the entries of the tables and for the scanned ones.
C24_ArchiveBackfill ==
    has_project =>
        \A i \in 1..Len(project) :
            LET f == project[i].filename
                rows == SelectSeq(ReadRows(roi_db), LAMBDA row : row.filename = f)
                archive == Stem(f) \o <<"_", "R", "O", "I", "s", ".", "z", "i", "p">>
            IN  /\ rows # <<>> =>
                     /\ Len(project[i].rois) = Len(rows)
                     /\ \A k \in 1..Len(rows) :
                          /\ project[i].rois[k].roi_name = rows[k].roi_name
                          /\ project[i].rois[k].bregma = rows[k].bregma
                          /\ project[i].rois[k].status = rows[k].status
                /\ rows = <<>> /\ archive \in DOMAIN roi_files =>
                     project[i].rois = FromArchive(roi_files[archive])
                /\ rows = <<>> /\ archive \notin DOMAIN roi_files =>
                     project[i].rois = <<>>

\* A loaded project with an entry that has a row in the ROI table and an
\* archive, and kept its row, and with a scanned entry that was filled from
\* its archive.
C24_Witness ==
    /\ has_project
    /\ \E i, j \in 1..Len(project) :
         /\ project[i].filename \in Filenames(ReadRows(roi_db))
         /\ RoiPath(project[i].filename) \in DOMAIN roi_files
         /\ Len(project[i].rois) = 1
         /\ project[i].rois[1].status = "Defined"
         /\ project[j].status = "Untracked"
         /\ Len(project[j].rois) = 2
         /\ project[j].rois[1] = [roi_name |-> R_s, bregma |-> "N/A", status |-> "From File"]
         /\ project[j].rois[2].roi_name = R_r

\* The entry was built from a row of a table (and not by the scan of the
\* images directory).
FromTables(f) == f \in TableFilenames

C26_ImagesKeptSorted ==
    has_project => InKeyOrder(project)

\* What every run of _verify_and_create_dirs does, whether the constructor
\* ends or raises: a path that existed is left as it was, and a table that
\* is created holds its header row and nothing else.
PathsStep ==
    /\ exists \subseteq exists'
    /\ images_dir' = images_dir
    /\ roi_files' = roi_files
    /\ roi_db' = IF "roi_db" \in exists THEN roi_db
                 ELSE IF "roi_db" \in exists'
                      THEN <<HeaderRow(<<"filename", "roi_name", "bregma", "status">>)>>
                      ELSE <<>>
    /\ image_status_db' = IF "image_status_db" \in exists THEN image_status_db
                          ELSE IF "image_status_db" \in exists'
                               THEN <<HeaderRow(<<"filename", "status">>)>>
                               ELSE <<>>
    /\ results_db' = IF "results_db" \in exists THEN results_db
                     ELSE IF "results_db" \in exists' THEN <<HeaderRow(InitHeaders)>>
                          ELSE <<>>

\* The constructor of Project ends in this step.
Initialized == status_label' = "Sucessfully loaded project"

\* The statement of C27 as claimed: once a Project is initialized every
\* path of the derived path set exists, the missing ones created (a table
\* with its header row only) and the others untouched.
C27_EveryPathExists ==
    [][PathsStep /\ (Initialized => exists' = PathKeys)]_vars

\* C27: once a Project is initialized every path of the derived path set
\* exists except the directories whose creation raised an error, which was
\* logged; the three tables always exist. The missing paths were created (a
\* table with its header row only) and the others left untouched.
C27_EveryPathExistsOrLogged ==
    [][/\ PathsStep
       /\ Initialized =>
            /\ CsvKeys \subseteq exists'
            /\ PathKeys \ exists' \subseteq DirKeys \cap path_errors'
            /\ has_project']_vars

\* A project was opened in a directory that had the status table with a row
\* but no ROI table: the status table is as it was and the ROI table holds
\* its header only; the temp directory, whose creation had failed in an
\* earlier attempt, exists too.
C27_Witness ==
    /\ has_project
    /\ status_label = "Sucessfully loaded project"
    /\ exists = PathKeys
    /\ Len(image_status_db) = 2
    /\ roi_db = <<HeaderRow(RoiDbHeaders)>>
    /\ path_errors = {"temp"}
    /\ Len(project) = 1

\* The statement of C28 as claimed: an error while one of the derived paths
\* is being created is logged and goes no further, so every attempt to open
\* a directory ends with the project loaded, and each path that is still
\* missing has its error in the log.
C28_PathErrorsNeverRaise ==
    [][/\ status_label' = "Sucessfully loaded project"
       /\ has_project'
       /\ PathKeys \ exists' \subseteq path_errors']_vars

\* The statement of C29 as claimed: the filename of an Image Entry can be
\* told from its ROI archive path, so two entries of the open project with
\* different filenames never have the same archive path.
C29_ArchivePathInjective ==
    \A i, j \in 1..Len(project) :
        project[i].filename # project[j].filename
            => RoiPath(project[i].filename) # RoiPath(project[j].filename)

\* The statement of C30 as claimed: a batch is started over finalized Image
\* Entries only, so every image in the settings of a worker that was
\* executed has the status Finalized.
C30_BatchOnlyFinalized ==
    \A i \in 1..Len(images_to_process) :
        images_to_process[i].status = "Finalized"

\* The rows of the results table and the Result Records of the running
\* batch have the six columns cols, the header in this order.
ResultColumns(cols) ==
    /\ \A k \in 1..Len(results_db) :
          IF results_db[k].kind = "header"
          THEN results_db[k].cells = cols
          ELSE DOMAIN results_db[k].cells = {cols[c] : c \in 1..Len(cols)}
    /\ \A k \in 1..Len(all_results) :
          DOMAIN all_results[k] = {cols[c] : c \in 1..Len(cols)}

UniqueNames(rois) ==
    \A j, k \in 1..Len(rois) : rois[j].roi_name = rois[k].roi_name => j = k

\* A handler of the open editor has run in this step.
EditorStep == editor.image # 0 /\ editor' # editor

\* The statement of C32 as claimed: the editor rejects a ROI created or
\* renamed under a name that is already in use, so no operation of the editor
\* on an image whose ROI names are unique leaves the image with two ROI
\* Records of the same name.
C32_EditorKeepsNamesUnique ==
    [][EditorStep /\ (\A i \in 1..Len(project) : UniqueNames(project[i].rois))
          => \A i \in 1..Len(project') : UniqueNames(project'[i].rois)]_vars

\* The ROI list of every image that has an archive holds the names of the
\* archive, in its order.
ArchivesReconciled(images, archives) ==
    \A i \in 1..Len(images) :
        RoiPath(images[i].filename) \in DOMAIN archives
            => RoiNames(images[i].rois) = archives[RoiPath(images[i].filename)]

\* No write of this step failed: the ROI table holds the rows of the ROI
\* lists, and the archive of the image of the editor, if the step is its
\* Save & Close with a ROI in the manager, holds the ROIs of the manager.
SavedInFull ==
    /\ roi_db' = RoiDbContent(project')
    /\ editor.image # 0 /\ editor'.image = 0 /\ editor.rm # <<>> =>
          /\ RoiPath(project[editor.image].filename) \in DOMAIN roi_files'
          /\ roi_files'[RoiPath(project[editor.image].filename)] = editor.rm

\* The statement of C33 as claimed: after a save, by Save & Close of the
\* editor or by the sync of the project, the ROI list of an image and its
\* archive hold the same names in the same order (no write having failed).
C33_SaveReconcilesArchive ==
    [][(SaveAndClose \/ SaveSucceeds) /\ SavedInFull
          => ArchivesReconciled(project', roi_files')]_vars

\* The ROI Records of every image, by filename.
RoiRecords(images) == {<<images[i].filename, images[i].rois>> : i \in 1..Len(images)}

\* The statement of C39 as claimed: marking an image Finalized in the editor
\* changes its status and nothing else, so when _finalize_image has run to
\* its end every image has the ROI Records it had just before, the ones
\* not yet saved included.
C39_FinalizeKeepsRoiRecords ==
    [][FinalizeImage /\ editor'.image = 0
          => RoiRecords(project') = RoiRecords(project)]_vars

\* The statement of C34 as claimed: every progress value a batch posts is in
\* 0..100 and no value is smaller than the one posted before it, also when
\* ROIs are created on the selected images while the batch runs.
C34_ProgressWithinRange ==
    \A k \in 1..Len(posted) :
        /\ posted[k] \in 0..100
        /\ k > 1 => posted[k - 1] <= posted[k]

\* A worker was executed on images that have no ROI at all.
EmptyBatch ==
    /\ future # "none"
    /\ images_to_process # <<>>
    /\ \A i \in 1..Len(images_to_process) : images_to_process[i].rois = <<>>

\* C35: a batch over images with zero ROIs in total ends at once: the worker
\* never enters the image loop and returns "No ROIs to process.", which
\* done() shows as the status; no image is opened or exported, no ROI is
\* started, no progress value is posted, and no step of the batch changes
\* the results table.
C35_EmptyBatchEndsAtOnce ==
    /\ [](EmptyBatch =>
            /\ pc \in {"pending", "finished"}
            /\ opened = <<>>
            /\ exported = <<>>
            /\ started = <<>>
            /\ posted = <<>>
            /\ all_results = <<>>
            /\ pc = "finished" => retval.text = "No ROIs to process."
            /\ done_ran /\ future = "returned" =>
                  final_message = [title |-> "Status", text |-> "No ROIs to process."])
    /\ [][EmptyBatch /\ EmptyBatch' => results_db' = results_db]_vars

\* done() has shown the status of a batch over an image without ROIs.
C35_Witness ==
    /\ EmptyBatch
    /\ done_ran
    /\ future = "returned"
    /\ final_message.text = "No ROIs to process."

\* The file names of the two tiers in the probabilities directory.
ObjectSuffix == <<"_", "o", "b", "j", "e", "c", "t", "s", ".", "t", "i", "f">>
PixelSuffix ==
    <<"_", "p", "r", "o", "b", "a", "b", "i", "l", "i", "t", "i", "e", "s", ".", "t", "i", "f">>

\* The path q is the object-tier artifact of some base name.
IsObjectArtifact(q) ==
    /\ Len(q) >= Len(ObjectSuffix)
    /\ SubSeq(q, Len(q) - Len(ObjectSuffix) + 1, Len(q)) = ObjectSuffix

\* The pixel-tier path of the base name of an object-tier path.
PixelArtifactOf(q) == SubSeq(q, 1, Len(q) - Len(ObjectSuffix)) \o PixelSuffix

\* C36: the probability cache starts empty, and after any resolves, ended
\* well or not, every object-tier artifact in it has the pixel-tier artifact
\* of the same base name beside it.
C36_ObjectOnlyWithPixel ==
    \A q \in DOMAIN cache : IsObjectArtifact(q) => PixelArtifactOf(q) \in DOMAIN cache

\* The cache holds both tiers of one base name and, after a resolve whose
\* object stage gave no output, the pixel tier alone of another.
C36_Witness ==
    /\ \E q \in DOMAIN cache : IsObjectArtifact(q)
    /\ \E q \in DOMAIN cache :
          /\ ~IsObjectArtifact(q)
          /\ SubSeq(q, 1, Len(q) - Len(PixelSuffix)) \o ObjectSuffix \notin DOMAIN cache
    /\ log # <<>>

\* C37: a resolve that finds the object-tier artifact of its base name
\* returns that artifact, invokes no stage and leaves the cache as it is,
\* whatever classifiers the settings name and whatever the cropped image
\* holds: the output is the one of the batch that wrote the artifact.
C37_CachedOutputIgnoresInputs ==
    [][ (pc = "classify" /\ pc' # "classify"
            /\ Exists(cache, ObjectProbPath(CurrentBase))) =>
          /\ pc' = "analyze"
          /\ result_imp' = cache[ObjectProbPath(CurrentBase)]
          /\ cache' = cache
          /\ calls'[CurrentPair].pixel = calls[CurrentPair].pixel
          /\ calls'[CurrentPair].object = calls[CurrentPair].object
          /\ calls'[CurrentPair].ok = calls[CurrentPair].ok + 1
      ]_vars

\* The second batch, run after a classifier or the ROI was replaced, got for
\* its ROI the output the first batch made from the former inputs, and
\* invoked no stage.
C37_Witness ==
    /\ pc = "analyze"
    /\ scheduled = 2
    /\ calls[CurrentPair] = Stats(2, 2, 1, 1)
    /\ result_imp.stage = "object"
    /\ result_imp.args = StageArgs("1", "1", "1")
    /\ stage_args.pixel_classifier # "1"
    /\ stage_args.object_classifier # "1"
    /\ stage_args.cropped # "1"

\* C38: no two entries of Project.images have the same filename, after the
\* project is loaded from any tables and images directory and after any
\* images are imported.
C38_FilenamesUnique ==
    \A i \in 1..Len(project), j \in 1..Len(project) :
        project[i].filename = project[j].filename => i = j

====
